---- MODULE Spec2Model ----
(***************************************************************************)
(* State-machine model of the traffic pre-emption tool chain:              *)
(*   stage2_full_rules.py       tier partition, tier timings, swap loop    *)
(*   runtime_controller.py      single-ambulance replay with pre-emption   *)
(*   stage0_traffic_heat.py     free-running light cycle and counters      *)
(*   generate_lights_and_ambulance.py  per-frame light tick                *)
(*   replanner.py               congestion-weighted Dijkstra               *)
(*   multi_ambulance_runner.py  multi-agent loop with replanning           *)
(* Each script is a specification of its own (SpecStage2, SpecRC, ...)     *)
(* over its own variables; the variables of the other scripts are parked.  *)
(***************************************************************************)
EXTENDS Integers, Sequences, FiniteSets

VARIABLES
    \* stage2_full_rules.py
    path_nodes,           \* route read from route_log.txt (junction indices)
    selected_timings,     \* junction -> [G, Y, R] of the selected approach
    others_timings,       \* junction -> [G, Y, R] of the other approaches
    sim_selected_state,   \* junction -> <<state, timer>> of the selected approach
    sim_others_state,     \* junction -> <<state, timer>> of the other approaches
    swap_schedule,        \* junction -> ticks remaining of the swapped cycle
    amb_frames,           \* recorded frame words
    step,                 \* number of route junctions already processed
    \* runtime_controller.py (path_nodes is its route too)
    orig_lights,          \* junction -> <<state, timer>> as loaded from lights.coe
    full_lights,          \* junction -> <<state, timer>>
    ambulance_frames,     \* recorded frame words
    t,                    \* number of ticks already simulated
    \* stage0_traffic_heat.py and generate_lights_and_ambulance.py
    script,               \* which of the two scripts is running
    lights,               \* junction -> <<state, timer>>
    dwell,                \* junction -> ticks spent in its phase (a record of the run)
    counts,               \* stage0: active junction -> vehicle counter
    tick,                 \* stage0: number of ticks already simulated
    frame,                \* generate_lights: number of frames already produced
    start_idx,            \* generate_lights: ambulance start junction
    end_idx,              \* generate_lights: ambulance end junction
    posx,                 \* generate_lights: ambulance x (y is constant)
    arrived,              \* generate_lights: ambulance reached the end junction
    frames,               \* generate_lights: recorded ambulance entries
    \* replanner.py (one call of dijkstra_weighted) and multi_ambulance_runner.py
    adj,                  \* junction -> sequence of <<neighbour, weight>>
    counts_vals,          \* junction -> vehicle count
    target,               \* target junction
    start,                \* replanner: start junction of the call
    result,               \* replanner: the returned route (None before the return)
    returned,             \* replanner: the call has returned
    \* multi_ambulance_runner.py
    ambulances,           \* sequence of [start, path, pos_idx, done]
    sim_ticks,            \* the loop counter ticks
    multi_frames,         \* ambulance -> recorded frame words (amb_frames)
    multi_log,            \* runtime_multi_log.txt (empty until it is written)
    \* path_selection.py
    hosp_meta,            \* sequence of [node, beds, specialty], one per hospital
    route_log,            \* route_log.txt (empty until the script has ended)
    \* a second run of a search on the inputs of the first
    rerun,                \* its settled entries and its result (empty before it)
    \* one call of a helper function of the scripts
    call,                 \* the function's name and its arguments
    ret,                  \* its return value
    ret_done              \* the call has returned

s2vars == <<selected_timings, others_timings, sim_selected_state,
            sim_others_state, swap_schedule, amb_frames, step>>
rcvars == <<orig_lights, full_lights, ambulance_frames, t>>
s0vars == <<counts, tick>>
glvars == <<frame, start_idx, end_idx, posx, arrived, frames>>
cyvars == <<script, lights, dwell, s0vars, glvars>>

grvars == <<adj, counts_vals, target>>
rpvars == <<start, result, returned>>

mavars == <<ambulances, sim_ticks, multi_frames, multi_log>>

psvars == <<hosp_meta, route_log>>

pfvars == <<rerun, call, ret, ret_done>>

vars == <<path_nodes, s2vars, rcvars, cyvars, grvars, rpvars, mavars, psvars, pfvars>>

----------------------------------------------------------------------------
(* Generic helpers *)

Max(a, b) == IF a >= b THEN a ELSE b
Min(a, b) == IF a <= b THEN a ELSE b

\* Python's round() of the exact rational num/den (den > 0): half to even.
RoundHalfEven(num, den) ==
    LET q == num \div den
        r == num % den
    IN  IF 2 * r > den \/ (2 * r = den /\ q % 2 = 1) THEN q + 1 ELSE q

\* int() of a non-negative rational num/den: truncation.
Trunc(num, den) == num \div den

\* Junction coordinates of map_data.coe: 10-bit x and y per junction.
nodes(j) == << (20 + 37 * j) % 1024, (15 + 11 * j) % 1024 >>

\* Frame word ((x & 0x3FF) << 22) | ((y & 0x3FF) << 12), kept as its two
\* 10-bit fields <<bits [31:22], bits [21:12]>>.
FrameWord(j) == << nodes(j)[1] % 1024, nodes(j)[2] % 1024 >>

\* Signal states
RED == 0
GREEN == 1
YELLOW == 2

----------------------------------------------------------------------------
(* stage2_full_rules.py *)

\* Longest route of the Stage-2 runs.
MaxL == 104

TICKS_PER_SEC == 10
CYCLE_TICKS == 10 * TICKS_PER_SEC      \* CYCLE_SECONDS * TICKS_PER_SEC
G_T == Trunc(CYCLE_TICKS * 6, 10)
Y_T == Trunc(CYCLE_TICKS * 1, 10)
R_T == Trunc(CYCLE_TICKS * 3, 10)
STEP_TICKS == 1

\* The shift of tier-2 junctions into tier 3.
TakeUnguarded(need, n2) == Min(need, n2)
Take(need, n2) == Min(need, n2 - 3)

partition_counts(L) ==
    LET a1 == Max(1, RoundHalfEven(15 * L, 100))
        a2 == Max(3, RoundHalfEven(40 * L, 100))
        a3 == L - a1 - a2
        take == IF a3 < 4 THEN Take(4 - a3, a2) ELSE 0
        b2 == a2 - take
        b3 == a3 + take
    IN  IF b3 < 0
        THEN LET c1 == Max(1, Trunc(15 * L, 100))
                 c2 == Max(3, Trunc(40 * L, 100))
             IN  <<c1, c2, L - c1 - c2>>
        ELSE <<a1, b2, b3>>

n1 == partition_counts(Len(path_nodes))[1]
n2 == partition_counts(Len(path_nodes))[2]
n3 == partition_counts(Len(path_nodes))[3]

\* Number of junctions: the route's junctions and one junction off the route.
N == Len(path_nodes) + 1
Junctions == 0 .. (N - 1)

OnRoute(ni) == \E i \in 1 .. Len(path_nodes) : path_nodes[i] = ni

\* tiers[ni]: the tier of the last route position holding ni (0-based position i).
tiers(ni) ==
    LET i == (CHOOSE k \in 1 .. Len(path_nodes) :
                  /\ path_nodes[k] = ni
                  /\ \A m \in (k + 1) .. Len(path_nodes) : path_nodes[m] # ni) - 1
    IN  IF i < n1 THEN 1 ELSE IF i < n1 + n2 THEN 2 ELSE 3

\* Red duration of a tier-3 junction, as a fraction of R_T.
Tier3RedHalf == Max(1, Trunc(R_T * 5, 10))
Tier3Red == Max(1, Trunc(R_T * 6, 10))

\* selected_timings[ni] after the tier modifiers.
TierSelected(ni) ==
    IF ~OnRoute(ni) THEN [G |-> G_T, Y |-> Y_T, R |-> R_T]
    ELSE IF tiers(ni) = 1
         THEN [G |-> Max(1, Trunc(G_T * 20, 10)), Y |-> Y_T,
               R |-> Max(1, Trunc(R_T * 25, 100))]
    ELSE IF tiers(ni) = 2
         THEN [G |-> Max(1, Trunc(G_T * 15, 10)), Y |-> Y_T,
               R |-> Max(1, Trunc(R_T * 5, 10))]
    ELSE [G |-> G_T, Y |-> Y_T, R |-> Tier3Red]

\* others_timings[ni] after the tier modifiers; first a variant that leaves the
\* other approaches at the base timings.
TierOthersBase(ni) == [G |-> G_T, Y |-> Y_T, R |-> R_T]
TierOthers(ni) ==
    IF ~OnRoute(ni) THEN [G |-> G_T, Y |-> Y_T, R |-> R_T]
    ELSE IF tiers(ni) = 1 THEN [G |-> 0, Y |-> Y_T, R |-> R_T]
    ELSE IF tiers(ni) = 2 THEN [G |-> Max(0, Trunc(G_T * 5, 10)), Y |-> Y_T, R |-> R_T]
    ELSE [G |-> G_T, Y |-> Y_T, R |-> R_T]

RCParked ==
    /\ orig_lights = << >>
    /\ full_lights = << >>
    /\ ambulance_frames = << >>
    /\ t = 0

GraphParked ==
    /\ adj = << >>
    /\ counts_vals = << >>
    /\ target = 0

ReplannerParked ==
    /\ start = 0
    /\ result = << >>
    /\ returned = FALSE

MultiParked ==
    /\ ambulances = << >>
    /\ sim_ticks = 0
    /\ multi_frames = << >>
    /\ multi_log = << >>

PFParked ==
    /\ rerun = << >>
    /\ call = << >>
    /\ ret = << >>
    /\ ret_done = FALSE

PSParked ==
    /\ hosp_meta = << >>
    /\ route_log = << >>

S0Parked ==
    /\ counts = << >>
    /\ tick = 0

GLParked ==
    /\ frame = 0
    /\ start_idx = 0
    /\ end_idx = 0
    /\ posx = 0
    /\ arrived = FALSE
    /\ frames = << >>

CycleParked ==
    /\ script = "none"
    /\ lights = << >>
    /\ dwell = << >>
    /\ S0Parked
    /\ GLParked

S2Parked ==
    /\ selected_timings = << >>
    /\ others_timings = << >>
    /\ sim_selected_state = << >>
    /\ sim_others_state = << >>
    /\ swap_schedule = << >>
    /\ amb_frames = << >>
    /\ step = 0

\* Routes of the Stage-2 runs: 0,1,..,L-1 and its reverse.
S2Routes ==
    UNION { { [i \in 1 .. L |-> i - 1], [i \in 1 .. L |-> L - i] } : L \in 1 .. MaxL }

S2Init ==
    /\ path_nodes \in S2Routes
    /\ selected_timings = [i \in Junctions |-> TierSelected(i)]
    /\ others_timings = [i \in Junctions |-> TierOthers(i)]
    /\ sim_selected_state =
           [i \in Junctions |->
               IF \E k \in 1 .. Min(n1, Len(path_nodes)) : path_nodes[k] = i
               THEN <<GREEN, selected_timings[i].G>>
               ELSE <<RED, selected_timings[i].R>>]
    /\ sim_others_state = [i \in Junctions |-> <<RED, others_timings[i].R>>]
    /\ swap_schedule = << >>
    /\ amb_frames = << >>
    /\ step = 0
    /\ RCParked
    /\ CycleParked
    /\ GraphParked
    /\ ReplannerParked
    /\ MultiParked
    /\ PSParked
    /\ PFParked

\* One timer decrement of the inner tick loop.
DecTimer(s) == IF s[2] > 0 THEN <<s[1], Max(0, s[2] - 1)>> ELSE s

\* swap_schedule after one pass of the countdown loop, before deletions.
SwapCountdown(sw) == [i \in DOMAIN sw |-> sw[i] - STEP_TICKS]

\* The junctions whose swap expires in the countdown loop of this iteration.
Expired(cur) ==
    { i \in DOMAIN SwapCountdown(swap_schedule) \cup {cur} :
          (IF i = cur THEN G_T + Y_T + R_T - STEP_TICKS
                      ELSE SwapCountdown(swap_schedule)[i]) <= 0 }

\* One iteration of `for step, cur in enumerate(path_nodes)`: the tick's timer
\* decrements and frame, the swap installed for cur, the countdown and reverts.
S2Step ==
    /\ step < Len(path_nodes)
    /\ \E cur \in {path_nodes[step + 1]} : \E expired \in {Expired(cur)} :
           /\ sim_selected_state' =
                 [i \in Junctions |->
                     IF i \in expired THEN <<RED, selected_timings[i].R>>
                     ELSE IF i = cur THEN <<GREEN, others_timings[cur].G>>
                     ELSE DecTimer(sim_selected_state[i])]
           /\ sim_others_state' =
                 [i \in Junctions |->
                     IF i \in expired THEN <<RED, others_timings[i].R>>
                     ELSE IF i = cur THEN <<RED, selected_timings[cur].G>>
                     ELSE DecTimer(sim_others_state[i])]
           /\ swap_schedule' =
                 [i \in ((DOMAIN swap_schedule) \cup {cur}) \ expired |->
                     IF i = cur THEN G_T + Y_T + R_T - STEP_TICKS
                                ELSE SwapCountdown(swap_schedule)[i]]
           /\ amb_frames' = Append(amb_frames, FrameWord(cur))
    /\ step' = step + 1
    /\ UNCHANGED <<path_nodes, selected_timings, others_timings, rcvars, cyvars, grvars, rpvars, mavars, psvars, pfvars>>

S2Next == S2Step

SpecStage2 == S2Init /\ [][S2Next]_vars

\* C1: for every route length L >= 4 the tier partition has n1 >= 1, n2 >= 3,
\* n3 >= 0 and n1 + n2 + n3 = L.
C1_PartitionCounts ==
    Len(path_nodes) >= 4 =>
        /\ n1 >= 1
        /\ n2 >= 3
        /\ n3 >= 0
        /\ n1 + n2 + n3 = Len(path_nodes)

\* A run over a route of 7 junctions (n3 < 4: the shifting branch is entered)
\* has processed its whole route.
C1_Witness == Len(path_nodes) = 7 /\ n3 = 3 /\ step = 7

\* C5 (as claimed): every installed swap override is eventually reverted, so
\* when the route is finished no swap override is left in swap_schedule.
C5_SwapsReverted == step = Len(path_nodes) => DOMAIN swap_schedule = {}

\* C6: on the route [0,1,2,3,4,5,6] the partition is (1, 3, 3), junction 0 is
\* forced GREEN with timer 2 * G_T before the first tick, and junction 6 (tier 3)
\* has the red duration int(0.6 * R_T).
C6_PreemptionScenario ==
    path_nodes = <<0, 1, 2, 3, 4, 5, 6>> =>
        /\ <<n1, n2, n3>> = <<1, 3, 3>>
        /\ selected_timings[0].G = 2 * G_T
        /\ selected_timings[6] = [G |-> G_T, Y |-> Y_T, R |-> (6 * R_T) \div 10]
        /\ step = 0 => /\ sim_selected_state[0] = <<GREEN, 2 * G_T>>
                       /\ sim_selected_state[6] = <<RED, (6 * R_T) \div 10>>

C6_Witness == path_nodes = <<0, 1, 2, 3, 4, 5, 6>> /\ step = 0

----------------------------------------------------------------------------
(* runtime_controller.py *)

\* Longest route of the runtime-controller runs.
MaxRoute == 15
\* Largest timer offset of the loaded lights.
MaxTimer == 3

PREEMPT_GREEN == 60

\* Routes 0,1,..,L-1 and their reverses.
RCRoutes ==
    UNION { { [i \in 1 .. L |-> i - 1], [i \in 1 .. L |-> L - i] } : L \in 1 .. MaxRoute }

preempt_count == Max(1, Trunc(Len(path_nodes) * 15, 100))
ticks == Len(path_nodes)

\* path_nodes[t : t + preempt_count] for the 0-based tick tk.
Window(tk) ==
    { path_nodes[k] : k \in (tk + 1) .. Min(tk + preempt_count, Len(path_nodes)) }

\* A pre-emption that turns the junction GREEN and keeps its timer.
PreemptKeepTimer(old) == <<GREEN, old[2]>>

\* The pre-emption written over an upcoming junction.
Preempt(old) == <<GREEN, PREEMPT_GREEN>>

RCInit ==
    /\ path_nodes \in RCRoutes
    /\ \E st0 \in {RED, GREEN, YELLOW}, tm0 \in 0 .. MaxTimer :
           orig_lights = [i \in Junctions |-> <<(st0 + i) % 3, tm0 + (i % 2)>>]
    /\ full_lights = orig_lights
    /\ ambulance_frames = << >>
    /\ t = 0
    /\ S2Parked
    /\ CycleParked
    /\ GraphParked
    /\ ReplannerParked
    /\ MultiParked
    /\ PSParked
    /\ PFParked

\* One iteration of `for t in range(ticks)`.
RCTick ==
    /\ t < ticks
    /\ full_lights' =
           [i \in Junctions |->
               IF i \in Window(t) THEN Preempt(DecTimer(full_lights[i]))
               ELSE DecTimer(full_lights[i])]
    /\ ambulance_frames' = Append(ambulance_frames, FrameWord(path_nodes[t + 1]))
    /\ t' = t + 1
    /\ UNCHANGED <<path_nodes, orig_lights, s2vars, cyvars, grvars, rpvars, mavars, psvars, pfvars>>

RCNext == RCTick

SpecRC == RCInit /\ [][RCNext]_vars

\* The cycle RED -> GREEN -> YELLOW -> RED.
NextPhase(st) == IF st = RED THEN GREEN ELSE IF st = GREEN THEN YELLOW ELSE RED

\* C3 (as claimed): a tick decrements the timer of every junction that is not
\* being pre-empted, and a junction whose timer hits 0 in the tick advances to
\* the next phase of the cycle.
C3_TickAdvancesCycle ==
    [][ t' = t + 1 =>
          \A i \in Junctions :
              i \notin Window(t) =>
                  /\ full_lights[i][2] > 1 =>
                        full_lights'[i] = <<full_lights[i][1], full_lights[i][2] - 1>>
                  /\ full_lights[i][2] = 1 =>
                        /\ full_lights'[i][1] = NextPhase(full_lights[i][1])
                        /\ full_lights'[i][2] > 0 ]_vars

\* What junction i shows after t ticks when it is never pre-empted.
NormalCycle(i) == <<orig_lights[i][1], Max(0, orig_lights[i][2] - t)>>

\* C4 (as claimed): after a tick, a junction that is not among the next
\* preempt_count route junctions shows the phase/timer of its normal cycle.
C4_OverrideReverts ==
    t > 0 => \A i \in Junctions :
                 i \notin Window(t - 1) => full_lights[i] = NormalCycle(i)

----------------------------------------------------------------------------
(* stage0_traffic_heat.py: counters and free-running light cycle *)

\* Largest number of junctions of the Stage-0 and generate_lights runs.
MaxJunctions == 2
\* Ticks of the Stage-0 loop that are explored (SIM_TICKS caps the loop itself).
MaxTicks == 3
MaxLongTicks == 28

TOTAL_VEH == 5000
MIN_PER_JUNC == 50
SIM_TICKS == 300
DEPART_WHEN_GREEN == 2

\* Sum of a function's values over the junctions 0 .. k-1.
RECURSIVE SumTo(_, _)
SumTo(f, k) == IF k = 0 THEN 0 ELSE f[k - 1] + SumTo(f, k - 1)

\* The initial share of one junction.
BaseShare(base) == Max(MIN_PER_JUNC, base)

\* Initial counters without the "distribute remainder" loop.
InitialCountsNoRemainder(K) == [i \in 0 .. (K - 1) |-> BaseShare(TOTAL_VEH \div K)]

\* The initial vehicle counters of K active junctions.
InitialCounts(K) ==
    LET base == TOTAL_VEH \div K
        c0 == [i \in 0 .. (K - 1) |-> BaseShare(base)]
        sum0 == SumTo(c0, K)
        c1 == IF sum0 > TOTAL_VEH
              THEN [i \in 0 .. (K - 1) |->
                       Max(MIN_PER_JUNC, Trunc(c0[i] * TOTAL_VEH, sum0))]
              ELSE c0
        rem == TOTAL_VEH - SumTo(c1, K)
    IN  [i \in 0 .. (K - 1) |->
            c1[i] + (IF rem > 0
                     THEN (rem \div K) + (IF i < rem % K THEN 1 ELSE 0)
                     ELSE 0)]

\* Configured duration of a Stage-0 phase.
PhaseTicks(st) == IF st = GREEN THEN G_T ELSE IF st = YELLOW THEN Y_T ELSE R_T

\* Initial timers explored: all of 1 .. duration for a single junction, the
\* ends of the range otherwise.
Stage0Timers(K, st) ==
    IF K = 1 THEN 1 .. PhaseTicks(st) ELSE {1, 2, PhaseTicks(st)}

\* A map of at least TOTAL_VEH // MIN_PER_JUNC junctions: K takes its greatest
\* value and every counter starts at MIN_PER_JUNC. Of such a run the explored
\* draws are: every junction starts with the same light, freshly GREEN or about
\* to leave RED; and in a tick no junction, junction 0 alone, or every junction
\* has an arrival.
FullMap == TOTAL_VEH \div MIN_PER_JUNC
FullMapLights == { <<GREEN, G_T>>, <<RED, 1>> }
Stage0Arrivals(K) ==
    IF K > MaxJunctions THEN { {}, {0}, 0 .. (K - 1) } ELSE SUBSET (0 .. (K - 1))
Stage0TickBound(K) == IF K > MaxJunctions THEN MaxLongTicks ELSE MaxTicks

\* What is recorded of junction j's stay in its phase: since is the number of
\* ticks since a transition brought it into the phase (-1 while it is in the
\* phase it was started in), last is <<phase, ticks>> of the latest stay that
\* began and ended with a transition (empty before there is one).
DwellStart == [since |-> -1, last |-> << >>]

DwellAfter(d, old, new) ==
    IF new[1] # old[1]
    THEN [since |-> 0,
          last |-> IF d.since >= 0 THEN <<old[1], d.since + 1>> ELSE d.last]
    ELSE [since |-> IF d.since >= 0 THEN d.since + 1 ELSE -1, last |-> d.last]

Stage0Init ==
    /\ script = "stage0"
    /\ \/ \E n \in 1 .. MaxJunctions :
            \E K \in {Min(n, TOTAL_VEH \div MIN_PER_JUNC)} :
              /\ counts = InitialCounts(K)
              /\ lights \in [0 .. (K - 1) ->
                                UNION { { <<st, tm>> : tm \in Stage0Timers(K, st) } :
                                          st \in {RED, GREEN, YELLOW} }]
       \/ \E K \in {Min(FullMap, TOTAL_VEH \div MIN_PER_JUNC)} :
              /\ counts = InitialCounts(K)
              /\ \E l \in FullMapLights : lights = [i \in 0 .. (K - 1) |-> l]
    /\ dwell = [i \in DOMAIN lights |-> DwellStart]
    /\ tick = 0
    /\ GLParked

\* if timer < 0: the transition one tick late.
Stage0ExpiredLate(timer) == timer < 0

\* if timer <= 0
Stage0Expired(timer) == timer <= 0

\* "advance state" of the Stage-0 loop (and a variant that skips YELLOW).
Stage0AdvanceSkip(st) == IF st = GREEN THEN RED ELSE IF st = YELLOW THEN RED ELSE GREEN
Stage0Advance(st) == IF st = GREEN THEN YELLOW ELSE IF st = YELLOW THEN RED ELSE GREEN

\* The light of one junction after its update in a tick.
Stage0Light(l) ==
    IF Stage0Expired(l[2] - 1)
    THEN <<Stage0Advance(l[1]), PhaseTicks(Stage0Advance(l[1]))>>
    ELSE <<l[1], l[2] - 1>>

\* The counter of one junction after its update in a tick (arr: an arrival);
\* first a variant whose departure is not limited to the vehicles present.
Stage0CountNoFloor(c, st, arr) ==
    LET c1 == IF arr THEN c + 1 ELSE c
    IN  IF st = GREEN /\ c1 > 0 THEN c1 - DEPART_WHEN_GREEN ELSE c1
Stage0Count(c, st, arr) ==
    LET c1 == IF arr THEN c + 1 ELSE c
    IN  IF st = GREEN /\ c1 > 0 THEN c1 - Min(c1, DEPART_WHEN_GREEN) ELSE c1

\* One iteration of `for tick in range(SIM_TICKS)`: every junction is updated.
\* (the body of the loop, for a tick whose arrivals are drawn from draws)
Stage0Update(draws) ==
    /\ script = "stage0"
    /\ tick < SIM_TICKS
    /\ \E arrivals \in draws :
           counts' = [i \in DOMAIN counts |->
                         Stage0Count(counts[i], lights[i][1], i \in arrivals)]
    /\ lights' = [i \in DOMAIN lights |-> Stage0Light(lights[i])]
    /\ dwell' = [i \in DOMAIN lights |-> DwellAfter(dwell[i], lights[i], lights'[i])]
    /\ tick' = tick + 1
    /\ UNCHANGED <<script, glvars, path_nodes, s2vars, rcvars, grvars, rpvars, mavars, psvars, pfvars>>

Stage0Tick ==
    /\ tick < Stage0TickBound(Cardinality(DOMAIN lights))
    /\ Stage0Update(Stage0Arrivals(Cardinality(DOMAIN lights)))

----------------------------------------------------------------------------
(* generate_lights_and_ambulance.py: per-frame ambulance entry and light tick *)

\* Frames of the frame loop that are explored (N_FRAMES caps the loop itself).
MaxFrames == 32

N_FRAMES == 2000
BLINK_PERIOD == 20
GREEN_LEN == 120
YELLOW_LEN == 30
RED_LEN == 150
WIDTH == 640
NEAR_END == 16

\* Junction coordinates of the generate_lights runs: junctions on one row.
glnodes(j) == << 100 + 24 * j, 200 >>

\* Configured length of a phase.
PhaseLen(st) == IF st = RED THEN RED_LEN ELSE IF st = GREEN THEN GREEN_LEN ELSE YELLOW_LEN

\* Initial timers explored: the ends of random.randint(lo, LEN).
GLTimers(st) == IF st = YELLOW THEN {10, YELLOW_LEN} ELSE {30, PhaseLen(st)}

GLInit ==
    /\ script = "genlights"
    /\ \E n \in 2 .. MaxJunctions :
           /\ lights \in [0 .. (n - 1) ->
                             UNION { { <<st, tm>> : tm \in GLTimers(st) } :
                                       st \in {RED, GREEN, YELLOW} }]
           /\ start_idx \in 0 .. (n - 1)
           /\ end_idx \in (0 .. (n - 1)) \ {start_idx}
    /\ posx = Max(0, Min(WIDTH - 1, glnodes(start_idx)[1]))
    /\ arrived = FALSE
    /\ frame = 0
    /\ frames = << >>
    /\ dwell = [i \in DOMAIN lights |-> DwellStart]
    /\ S0Parked

\* if timer <= 0: the transition one frame late.
GLExpiredAtZero(timer) == timer <= 0

\* if timer <= 1
GLExpired(timer) == timer <= 1

\* "advance state" of the per-frame light tick.
GLAdvance(st) == IF st = RED THEN GREEN ELSE IF st = GREEN THEN YELLOW ELSE RED

\* The light of one junction after the tick of a frame.
GLLight(l) ==
    IF GLExpired(l[2])
    THEN <<GLAdvance(l[1]), PhaseLen(GLAdvance(l[1]))>>
    ELSE <<l[1], l[2] - 1>>

\* Clamped end points, the distance between them and the intended position
\* lerp(x0, x1, frac) with frac = min(1, frame * speed / dist), speed = 2.
GLx0 == Max(0, Min(WIDTH - 1, glnodes(start_idx)[1]))
GLx1 == Max(0, Min(WIDTH - 1, glnodes(end_idx)[1]))
GLdist == IF GLx1 >= GLx0 THEN GLx1 - GLx0 ELSE GLx0 - GLx1
GLtx == IF GLx1 >= GLx0 THEN GLx0 + Min(GLdist, 2 * frame)
                        ELSE GLx0 - Min(GLdist, 2 * frame)
\* hypot(tx - x1, ty - y1)
GLremaining == IF GLx1 >= GLtx THEN GLx1 - GLtx ELSE GLtx - GLx1

\* One iteration of `for frame in range(N_FRAMES)`.
GLUpdate ==
    /\ script = "genlights"
    /\ frame < N_FRAMES
    /\ \E np \in { IF arrived THEN <<posx, TRUE>>
                   ELSE IF 2 * frame >= GLdist \/ GLremaining < 1 THEN <<GLx1, TRUE>>
                   ELSE IF GLremaining < NEAR_END /\ lights[end_idx][1] = RED
                        THEN <<posx, FALSE>>
                   ELSE <<GLtx, FALSE>> } :
           /\ posx' = np[1]
           /\ arrived' = np[2]
           /\ frames' = Append(frames,
                  << Max(0, Min(WIDTH - 1, np[1])), glnodes(start_idx)[2],
                     (frame \div (BLINK_PERIOD \div 2)) % 2 >>)
    /\ lights' = [i \in DOMAIN lights |-> GLLight(lights[i])]
    /\ dwell' = [i \in DOMAIN lights |-> DwellAfter(dwell[i], lights[i], lights'[i])]
    /\ frame' = frame + 1
    /\ UNCHANGED <<script, start_idx, end_idx, s0vars, path_nodes, s2vars, rcvars, grvars, rpvars, mavars, psvars, pfvars>>

GLFrame ==
    /\ frame < MaxFrames
    /\ GLUpdate

CycleInit ==
    /\ Stage0Init \/ GLInit
    /\ path_nodes = << >>
    /\ S2Parked
    /\ RCParked
    /\ GraphParked
    /\ ReplannerParked
    /\ MultiParked
    /\ PSParked
    /\ PFParked

CycleNext == Stage0Tick \/ GLFrame

SpecCycle == CycleInit /\ [][CycleNext]_vars

\* The fixed cycle RED -> GREEN -> YELLOW -> RED.
CycleSucc(st) == IF st = RED THEN GREEN ELSE IF st = GREEN THEN YELLOW ELSE RED

C2_PhaseAndTimer ==
    \A j \in DOMAIN lights :
        lights[j][1] \in {RED, GREEN, YELLOW} /\ lights[j][2] >= 0

\* C2 (as claimed): phase in {RED, GREEN, YELLOW}, timer >= 0, and a junction
\* changes phase in a tick only if its timer was 0 at the start of the tick,
\* and then along RED -> GREEN -> YELLOW -> RED.
C2_TransitionAtZero ==
    /\ []C2_PhaseAndTimer
    /\ [][\A j \in DOMAIN lights :
             lights'[j][1] # lights[j][1] =>
                 lights[j][2] = 0 /\ lights'[j][1] = CycleSucc(lights[j][1])]_vars

\* C2 (amended): phase in {RED, GREEN, YELLOW}, timer >= 0, and a junction
\* changes phase in a tick only if its timer was 1 at the start of the tick
\* (the tick that brings it to 0), and then along RED -> GREEN -> YELLOW -> RED.
C2_TransitionAtOne ==
    /\ []C2_PhaseAndTimer
    /\ [][\A j \in DOMAIN lights :
             lights'[j][1] # lights[j][1] =>
                 lights[j][2] = 1 /\ lights'[j][1] = CycleSucc(lights[j][1])]_vars

\* Junction 0 of a generate_lights run has just turned RED: it started YELLOW
\* with timer 10 and its tenth tick found the timer at 1.
C2_Witness ==
    /\ script = "genlights"
    /\ frame = 10
    /\ lights[0] = <<RED, RED_LEN>>

----------------------------------------------------------------------------
(* replanner.py: dijkstra_weighted *)

\* Largest edge weight of the explored graphs, and the number of non-zero
\* vehicle counts 1, 2, 4, ... explored.
MaxW == 4
MaxCountExp == 2

ALPHA == 1
BETA == 2
\* math.inf
Inf == -1
\* The return value None.
None == << >>

\* adj as build_graph fills it from a list of edges <<a, b, w>>: each edge is
\* appended to adj[a] and to adj[b].
RECURSIVE AdjFromEdges(_, _, _)
AdjFromEdges(n, es, k) ==
    IF k = 0 THEN [u \in 0 .. (n - 1) |-> << >>]
    ELSE LET g == AdjFromEdges(n, es, k - 1)
             a == es[k][1]
             b == es[k][2]
             w == es[k][3]
         IN  [u \in 0 .. (n - 1) |->
                 IF u = a THEN Append(g[u], <<b, w>>)
                 ELSE IF u = b THEN Append(g[u], <<a, w>>)
                 ELSE g[u]]

\* max(counts)
RECURSIVE MaxOf(_, _)
MaxOf(f, k) == IF k = 1 THEN f[0] ELSE Max(f[k - 1], MaxOf(f, k - 1))

\* maxc = max(1, max(counts))
maxc(cnt) == Max(1, MaxOf(cnt, Cardinality(DOMAIN cnt)))

\* Costs are kept multiplied by 2 * maxc, which makes them integers:
\* alpha*w + beta*(((counts[u] + counts[v]) / 2.0) / maxc), and a variant without
\* the division by maxc.
EdgeCostRaw(cnt, u, v, w) ==
    2 * maxc(cnt) * ALPHA * w + BETA * (cnt[u] + cnt[v]) * maxc(cnt)
EdgeCost(cnt, u, v, w) ==
    2 * maxc(cnt) * ALPHA * w + BETA * (cnt[u] + cnt[v])

\* nd < dist[v]
Less(nd, dv) == dv = Inf \/ nd < dv

\* The entry heapq.heappop returns: the least (d, u) pair; and the greatest.
PopMax(pq) ==
    CHOOSE e \in pq : \A f \in pq : e[1] > f[1] \/ (e[1] = f[1] /\ e[2] >= f[2])
PopMin(pq) ==
    CHOOSE e \in pq : \A f \in pq : e[1] < f[1] \/ (e[1] = f[1] /\ e[2] <= f[2])

\* for v,w in adj.get(u,[]): relax the edges es[k..] of u, popped at distance d.
RECURSIVE RelaxEdges(_, _, _, _, _, _)
RelaxEdges(cnt, st, u, d, es, k) ==
    IF k > Len(es) THEN st
    ELSE LET v == es[k][1]
             nd == d + EdgeCost(cnt, u, v, es[k][2])
         IN  IF Less(nd, st.dist[v])
             THEN RelaxEdges(cnt,
                      [dist |-> [st.dist EXCEPT ![v] = nd],
                       prev |-> [st.prev EXCEPT ![v] = u],
                       pq |-> st.pq \cup {<<nd, v>>}],
                      u, d, es, k + 1)
             ELSE RelaxEdges(cnt, st, u, d, es, k + 1)

\* while pq: pop, skip stale entries, stop at the target, relax.
RECURSIVE DijkstraLoop(_, _, _, _)
DijkstraLoop(g, cnt, tgt, st) ==
    IF st.pq = {} THEN st
    ELSE LET e == PopMin(st.pq)
             st1 == [st EXCEPT !.pq = st.pq \ {e}]
         IN  IF e[1] # st.dist[e[2]] THEN DijkstraLoop(g, cnt, tgt, st1)
             ELSE IF e[2] = tgt THEN st1
             ELSE DijkstraLoop(g, cnt, tgt,
                               RelaxEdges(cnt, st1, e[2], e[1], g[e[2]], 1))

\* The reconstruction loop: walk prev from u back to the start; acc is the
\* reversed list built so far. First a variant that leaves the loop at the
\* start junction before appending it.
RECURSIVE BacktrackBreakFirst(_, _, _, _)
BacktrackBreakFirst(prev, s, u, acc) ==
    IF u = -1 THEN acc
    ELSE IF u = s THEN acc
    ELSE BacktrackBreakFirst(prev, s, prev[u], <<u>> \o acc)

RECURSIVE Backtrack(_, _, _, _)
Backtrack(prev, s, u, acc) ==
    IF u = -1 THEN acc
    ELSE IF u = s THEN <<u>> \o acc
    ELSE Backtrack(prev, s, prev[u], <<u>> \o acc)

dijkstra_weighted(g, cnt, s, tgt) ==
    LET n == Cardinality(DOMAIN g)
        fin == DijkstraLoop(g, cnt, tgt,
                   [dist |-> [i \in 0 .. (n - 1) |-> IF i = s THEN 0 ELSE Inf],
                    prev |-> [i \in 0 .. (n - 1) |-> -1],
                    pq |-> {<<0, s>>}])
    IN  IF fin.dist[tgt] = Inf THEN None ELSE Backtrack(fin.prev, s, tgt, << >>)

\* The explored inputs: graphs on junctions 0,1,2 with each of the edges
\* (0,1), (1,2), (0,2) absent or of a weight in WeightSet; counts in CountSet.
TriangleEdges(w01, w12, w02) ==
    (IF w01 >= 0 THEN << <<0, 1, w01>> >> ELSE << >>) \o
    (IF w12 >= 0 THEN << <<1, 2, w12>> >> ELSE << >>) \o
    (IF w02 >= 0 THEN << <<0, 2, w02>> >> ELSE << >>)

Triangle(w01, w12, w02) ==
    AdjFromEdges(3, TriangleEdges(w01, w12, w02), Len(TriangleEdges(w01, w12, w02)))

\* The counts explored are 0 and powers of two: maxc is then a power of two and
\* the float division by maxc, and every sum of costs, is exact, so the scaled
\* integer costs order routes exactly as the floats of the code do.
RECURSIVE Pow2(_)
Pow2(k) == IF k = 0 THEN 1 ELSE 2 * Pow2(k - 1)
CountSet == {0} \cup { Pow2(k) : k \in 0 .. (MaxCountExp - 1) }

\* Weights and counts of the end-to-end scenarios.
ScenarioWeights == {10, 25}
ScenarioCounts == {0, 100}

ReplannerInit ==
    /\ \/ /\ \E w01, w12, w02 \in (0 .. MaxW) \cup {-1} : adj = Triangle(w01, w12, w02)
          /\ counts_vals \in [0 .. 2 -> CountSet]
       \/ /\ \E w02 \in {-1, 25} : adj = Triangle(10, 10, w02)
          /\ \E c1 \in ScenarioCounts : counts_vals = [i \in 0 .. 2 |-> IF i = 1 THEN c1 ELSE 0]
    /\ start \in 0 .. 2
    /\ target \in 0 .. 2
    /\ result = None
    /\ returned = FALSE
    /\ path_nodes = << >>
    /\ S2Parked
    /\ RCParked
    /\ CycleParked
    /\ MultiParked
    /\ PSParked
    /\ PFParked

\* One call of dijkstra_weighted(adj, nodes, counts, start, target).
ReplannerCall ==
    /\ ~returned
    /\ result' = dijkstra_weighted(adj, counts_vals, start, target)
    /\ returned' = TRUE
    /\ UNCHANGED <<start, grvars, path_nodes, s2vars, rcvars, cyvars, mavars, psvars, pfvars>>

ReplannerNext == ReplannerCall

SpecReplanner == ReplannerInit /\ [][ReplannerNext]_vars

ScenarioC7 ==
    /\ adj = Triangle(10, 10, 25)
    /\ counts_vals = [i \in 0 .. 2 |-> IF i = 1 THEN 100 ELSE 0]
    /\ start = 0
    /\ target = 2

\* C7 (as claimed): on the triangle with weights 10, 10, 25 and congestion(1) =
\* 100, dijkstra_weighted(0 -> 2) returns [0,2].
C7_DirectRoute == (ScenarioC7 /\ returned) => result = <<0, 2>>

\* C7 (amended): on that graph dijkstra_weighted(0 -> 2) returns [0,1,2]: the
\* normalised congestion term adds 1 to each of its two edges, 22 against 25.
C7_RouteViaOne == (ScenarioC7 /\ returned) => result = <<0, 1, 2>>

C7_Witness == ScenarioC7 /\ returned

\* Cost of the edge (u, v, w) as the claim states it, times 2 * max(1, max count):
\* alpha*w + beta*((count[u] + count[v]) / 2) / max(1, max count), alpha = 1, beta = 2.
C8_EdgeCost(u, v, w) ==
    LET m == Max(1, MaxOf(counts_vals, Cardinality(DOMAIN counts_vals)))
    IN  2 * m * w + 2 * (counts_vals[u] + counts_vals[v])

\* Cheapest edge from u to v (v a neighbour of u).
C8_StepCost(u, v) ==
    LET cs == { C8_EdgeCost(u, v, adj[u][k][2]) : k \in { i \in 1 .. Len(adj[u]) : adj[u][i][1] = v } }
    IN  CHOOSE c \in cs : \A d \in cs : c <= d

RECURSIVE C8_PathCost(_, _)
C8_PathCost(p, k) ==
    IF k <= 1 THEN 0 ELSE C8_PathCost(p, k - 1) + C8_StepCost(p[k - 1], p[k])

\* All routes from s to tgt that visit no junction twice.
C8_Routes(s, tgt) ==
    { p \in UNION { [1 .. k -> DOMAIN adj] : k \in 1 .. Cardinality(DOMAIN adj) } :
        /\ p[1] = s
        /\ p[Len(p)] = tgt
        /\ \A i, j \in 1 .. Len(p) : i # j => p[i] # p[j]
        /\ \A i \in 1 .. (Len(p) - 1) : \E k \in 1 .. Len(adj[p[i]]) : adj[p[i]][k][1] = p[i + 1] }

ScenarioC8 ==
    /\ adj = Triangle(10, 10, -1)
    /\ counts_vals = [i \in 0 .. 2 |-> 0]
    /\ start = 0
    /\ target = 2

\* C8: when the target is reachable, dijkstra_weighted returns a route from
\* start to target whose total cost is minimal among all routes; on the line
\* 0-1-2 with weights 10 and no congestion it returns [0,1,2], of cost 20.
C8_MinimalCost ==
    returned =>
        /\ C8_Routes(start, target) # {} =>
              /\ result \in C8_Routes(start, target)
              /\ \A p \in C8_Routes(start, target) :
                     C8_PathCost(result, Len(result)) <= C8_PathCost(p, Len(p))
        /\ ScenarioC8 =>
              /\ result = <<0, 1, 2>>
              /\ C8_PathCost(result, 3) = 20 * 2

\* The call has returned on a graph with two routes of different cost
\* (direct 0-2 of weight 3 against 0-1-2 of weights 1 and 1).
C8_Witness ==
    /\ returned
    /\ adj = Triangle(1, 1, 3)
    /\ counts_vals = [i \in 0 .. 2 |-> 0]
    /\ start = 0
    /\ target = 2
    /\ result = <<0, 1, 2>>

----------------------------------------------------------------------------
(* multi_ambulance_runner.py : spawn selection and the multi-agent loop *)

MaxN == 7
MaxSimTicks == 14

N_AMB == 2
REPLAN_INTERVAL == 5
max_ticks == 1000

\* The plain Dijkstra from the target (no early exit): relax the edges es[k..]
\* of u, popped at distance d, with nd = d + w.
RECURSIVE PlainRelax(_, _, _, _, _)
PlainRelax(st, u, d, es, k) ==
    IF k > Len(es) THEN st
    ELSE LET v == es[k][1]
             nd == d + es[k][2]
         IN  IF Less(nd, st.dist[v])
             THEN PlainRelax([dist |-> [st.dist EXCEPT ![v] = nd],
                              pq |-> st.pq \cup {<<nd, v>>}],
                             u, d, es, k + 1)
             ELSE PlainRelax(st, u, d, es, k + 1)

RECURSIVE PlainLoop(_, _)
PlainLoop(g, st) ==
    IF st.pq = {} THEN st.dist
    ELSE LET e == PopMin(st.pq)
             st1 == [st EXCEPT !.pq = st.pq \ {e}]
         IN  IF e[1] # st.dist[e[2]] THEN PlainLoop(g, st1)
             ELSE PlainLoop(g, PlainRelax(st1, e[2], e[1], g[e[2]], 1))

PlainDist(g, tgt) ==
    PlainLoop(g, [dist |-> [i \in DOMAIN g |-> IF i = tgt THEN 0 ELSE Inf],
                  pq |-> {<<0, tgt>>}])

\* sorted(range(N), key = dist or 1e9 when unreachable, reverse=True): junction
\* i comes before j when its key is greater, or equal with i < j (the sort is
\* stable). Unreachable junctions have the greatest key.
SortsBefore(dist, i, j) ==
    \/ dist[i] = Inf /\ dist[j] # Inf
    \/ dist[i] # Inf /\ dist[j] # Inf /\ dist[i] > dist[j]
    \/ dist[i] = dist[j] /\ i < j

nodes_sorted(dist) ==
    [k \in 1 .. Cardinality(DOMAIN dist) |->
        CHOOSE i \in DOMAIN dist :
            Cardinality({ j \in DOMAIN dist : SortsBefore(dist, j, i) }) = k - 1]

spawns(g, tgt) == SubSeq(nodes_sorted(PlainDist(g, tgt)), 1, Min(N_AMB, Cardinality(DOMAIN g)))

\* p = dijkstra_weighted(...); if p is None: p = [si, target]. First a variant
\* without the fallback.
SpawnAmbulanceNoFallback(g, cnt, si, tgt) ==
    [start |-> si, path |-> dijkstra_weighted(g, cnt, si, tgt), pos_idx |-> 0, done |-> FALSE]
SpawnAmbulance(g, cnt, si, tgt) ==
    LET p == dijkstra_weighted(g, cnt, si, tgt)
    IN  [start |-> si,
         path |-> IF p = None THEN <<si, tgt>> ELSE p,
         pos_idx |-> 0,
         done |-> FALSE]

\* The junction a['path'][i] (pos_idx counts from 0).
At(a, i) == a.path[i + 1]

\* if ticks % REPLAN_INTERVAL == 0 and pos_idx < len(path)-1: replan from the
\* current junction; a route that is None or empty keeps the old one. First a
\* variant that replans in every tick.
ReplanEveryTick(a, g, cnt, tgt, tk) ==
    IF a.pos_idx < Len(a.path) - 1
    THEN LET newp == dijkstra_weighted(g, cnt, At(a, a.pos_idx), tgt)
         IN  IF newp # None THEN [a EXCEPT !.path = newp, !.pos_idx = 0] ELSE a
    ELSE a
\* A replan that solves from the spawn junction instead of the current one.
ReplanFromSpawn(a, g, cnt, tgt, tk) ==
    IF tk % REPLAN_INTERVAL = 0 /\ a.pos_idx < Len(a.path) - 1
    THEN LET newp == dijkstra_weighted(g, cnt, a.start, tgt)
         IN  IF newp # None THEN [a EXCEPT !.path = newp, !.pos_idx = 0] ELSE a
    ELSE a
Replan(a, g, cnt, tgt, tk) ==
    IF tk % REPLAN_INTERVAL = 0 /\ a.pos_idx < Len(a.path) - 1
    THEN LET newp == dijkstra_weighted(g, cnt, At(a, a.pos_idx), tgt)
         IN  IF newp # None THEN [a EXCEPT !.path = newp, !.pos_idx = 0] ELSE a
    ELSE a

\* move forward one node if possible, else mark done; and a variant that
\* marks done as soon as the last index is reached.
MoveEager(a) ==
    IF a.pos_idx < Len(a.path) - 1
    THEN [a EXCEPT !.pos_idx = a.pos_idx + 1, !.done = (a.pos_idx + 1 = Len(a.path) - 1)]
    ELSE [a EXCEPT !.done = TRUE]
Move(a) ==
    IF a.pos_idx < Len(a.path) - 1
    THEN [a EXCEPT !.pos_idx = a.pos_idx + 1]
    ELSE [a EXCEPT !.done = TRUE]

\* The body of "for ai,a in enumerate(ambulances)" for one ambulance.
StepAmbulance(a, g, cnt, tgt, tk) ==
    IF a.done THEN a ELSE Move(Replan(a, g, cnt, tgt, tk))

\* for a in ambulances: idx = a['path'][max(0, pos_idx-1)]; decrement
\* counts_vals[idx] if positive. Applied to ambulances 1..k in order.
RECURSIVE DecrementPassed(_, _, _)
DecrementPassed(cnt, ambs, k) ==
    IF k = 0 THEN cnt
    ELSE LET c == DecrementPassed(cnt, ambs, k - 1)
             idx == At(ambs[k], Max(0, ambs[k].pos_idx - 1))
         IN  IF c[idx] > 0 THEN [c EXCEPT ![idx] = Max(0, c[idx] - 1)] ELSE c

\* The explored road graphs: junctions 0..n-1 on a line of unit edges, either
\* with one edge missing (cut >= 0) or with one extra edge (a, b, w), a < b.
LineEdges(n, cut) ==
    SelectSeq([i \in 1 .. (n - 1) |-> <<i - 1, i, 1>>], LAMBDA e : e[1] # cut)

MultiGraph(n, cut, a, b, w) ==
    LET es == LineEdges(n, cut) \o (IF a < b THEN << <<a, b, w>> >> ELSE << >>)
    IN  AdjFromEdges(n, es, Len(es))

\* Counts stay in 0..2, where the float costs of the code are exact. The
\* target is an end of the line or its middle junction.
MultiCounts(n) ==
    { [i \in 0 .. (n - 1) |-> IF i = hot THEN c ELSE c0] :
        hot \in 0 .. (n - 1), c \in 0 .. 2, c0 \in 0 .. 1 }

MultiInit ==
    /\ \E n \in 2 .. MaxN :
         /\ \/ \E cut \in -1 .. (n - 2) : adj = MultiGraph(n, cut, 0, 0, 1)
            \/ \E a, b \in 0 .. (n - 1), w \in 1 .. MaxW :
                  a + 1 < b /\ adj = MultiGraph(n, -1, a, b, w)
         /\ counts_vals \in MultiCounts(n)
         /\ target \in {0, n \div 2, n - 1}
    /\ \E sp \in {spawns(adj, target)} :
         /\ ambulances = [k \in 1 .. Len(sp) |->
                             SpawnAmbulance(adj, counts_vals, sp[k], target)]
         /\ multi_frames = [k \in 1 .. Len(sp) |-> << >>]
    /\ sim_ticks = 0
    /\ multi_log = << >>
    /\ orig_lights = [i \in DOMAIN adj |-> <<i % 3, i % (MaxTimer + 1)>>]
    /\ full_lights = << >>
    /\ ambulance_frames = << >>
    /\ t = 0
    /\ path_nodes = << >>
    /\ S2Parked
    /\ CycleParked
    /\ ReplannerParked
    /\ PSParked
    /\ PFParked

\* The ambulances 1..k stepped in order, each decrement applied inside the
\* per-ambulance loop, so that a later ambulance replans on counts the earlier
\* ones have already lowered.
RECURSIVE StepInterleaved(_)
StepInterleaved(k) ==
    IF k = 0 THEN [ambs |-> ambulances, cnt |-> counts_vals]
    ELSE LET st == StepInterleaved(k - 1)
             a == StepAmbulance(ambulances[k], adj, st.cnt, target, sim_ticks + 1)
             idx == At(a, Max(0, a.pos_idx - 1))
         IN  [ambs |-> [st.ambs EXCEPT ![k] = a],
              cnt |-> IF st.cnt[idx] > 0
                      THEN [st.cnt EXCEPT ![idx] = Max(0, st.cnt[idx] - 1)]
                      ELSE st.cnt]

MultiTickInterleaved ==
    /\ sim_ticks < max_ticks
    /\ sim_ticks < MaxSimTicks
    /\ \E k \in 1 .. Len(ambulances) : ~ambulances[k].done
    /\ sim_ticks' = sim_ticks + 1
    /\ \E st \in {StepInterleaved(Len(ambulances))} :
          /\ ambulances' = st.ambs
          /\ counts_vals' = st.cnt
    /\ multi_frames' = [k \in 1 .. Len(ambulances) |->
                           IF ambulances[k].done THEN multi_frames[k]
                           ELSE Append(multi_frames[k],
                                       FrameWord(At(ambulances'[k], ambulances'[k].pos_idx)))]
    /\ UNCHANGED <<adj, target, multi_log, path_nodes, s2vars, rcvars, cyvars, rpvars, psvars, pfvars>>

\* One iteration of "while ticks < max_ticks and not all done".
MultiTick ==
    /\ sim_ticks < max_ticks
    /\ sim_ticks < MaxSimTicks
    /\ \E k \in 1 .. Len(ambulances) : ~ambulances[k].done
    /\ sim_ticks' = sim_ticks + 1
    /\ ambulances' = [k \in 1 .. Len(ambulances) |->
                         StepAmbulance(ambulances[k], adj, counts_vals, target, sim_ticks + 1)]
    /\ multi_frames' = [k \in 1 .. Len(ambulances) |->
                           IF ambulances[k].done THEN multi_frames[k]
                           ELSE Append(multi_frames[k],
                                       FrameWord(At(ambulances'[k], ambulances'[k].pos_idx)))]
    /\ counts_vals' = DecrementPassed(counts_vals, ambulances', Len(ambulances))
    /\ UNCHANGED <<adj, target, multi_log, path_nodes, s2vars, rcvars, cyvars, rpvars, psvars, pfvars>>

\* pre = max(1, int(len(p) * PREEMPT_RATIO))
MultiPreemptCount(a) == Max(1, Trunc(Len(a.path) * 15, 100))

\* for a in ambulances: for ni in p[:pre]: full_lights[ni] = [1,60], applied to
\* ambulances 1..k.
RECURSIVE MultiPreempt(_, _, _)
MultiPreempt(fl, ambs, k) ==
    IF k = 0 THEN fl
    ELSE LET f == MultiPreempt(fl, ambs, k - 1)
             pre == { ambs[k].path[i] : i \in 1 .. Min(MultiPreemptCount(ambs[k]), Len(ambs[k].path)) }
         IN  [ni \in DOMAIN f |-> IF ni \in pre THEN Preempt(f[ni]) ELSE f[ni]]

\* The lines of runtime_multi_log.txt.
MultiLog ==
    [ticks |-> sim_ticks,
     amb |-> [k \in 1 .. Len(ambulances) |->
                 [start |-> ambulances[k].start,
                  path_len |-> Len(ambulances[k].path),
                  done |-> ambulances[k].done]]]

\* The code after the loop: the loop condition is false; the final lights are
\* built from lights.coe and the log is written.
MultiFinish ==
    /\ ~(sim_ticks < max_ticks /\ \E k \in 1 .. Len(ambulances) : ~ambulances[k].done)
    /\ multi_log = << >>
    /\ full_lights' = MultiPreempt(orig_lights, ambulances, Len(ambulances))
    /\ multi_log' = MultiLog
    /\ UNCHANGED <<ambulances, sim_ticks, multi_frames, adj, counts_vals, target,
                   orig_lights, ambulance_frames, t, path_nodes, s2vars, cyvars, rpvars, psvars, pfvars>>

MultiNext == MultiTick \/ MultiFinish

SpecMulti == MultiInit /\ [][MultiNext]_vars

\* The junction ambulance k stands on.
Cur(ambs, k) == At(ambs[k], ambs[k].pos_idx)
AtLast(a) == a.pos_idx = Len(a.path) - 1

\* C9 as stated: after every tick done holds exactly when the cursor is at the
\* last route index, and the cursor never advances by more than one per tick.
C9_DoneSameTick ==
    /\ [](sim_ticks > 0 =>
            \A k \in 1 .. Len(ambulances) : ambulances[k].done <=> AtLast(ambulances[k]))
    /\ [][\A k \in 1 .. Len(ambulances) :
            ambulances'[k].pos_idx <= ambulances[k].pos_idx + 1]_vars

\* C9 (amended): an agent becomes done in the tick after the one in which its
\* cursor reaches the last index: done implies the cursor is at the last index;
\* a tick that moves the cursor leaves the agent not done; a tick that starts
\* with a non-done agent at the last index marks it done without moving it;
\* and the cursor never advances by more than one index in a tick.
C9_DoneNextTick ==
    /\ [](\A k \in 1 .. Len(ambulances) : ambulances[k].done => AtLast(ambulances[k]))
    /\ [][\A k \in 1 .. Len(ambulances) :
            /\ ambulances'[k].pos_idx <= ambulances[k].pos_idx + 1
            /\ (~ambulances[k].done /\ ~AtLast(ambulances[k])) => ~ambulances'[k].done
            /\ (~ambulances[k].done /\ AtLast(ambulances[k])) =>
                   /\ ambulances'[k].done
                   /\ ambulances'[k].pos_idx = ambulances[k].pos_idx
                   /\ ambulances'[k].path = ambulances[k].path]_vars

\* An ambulance has driven a route of at least three junctions to its last
\* index and is not done yet.
C9_Witness ==
    /\ sim_ticks > 0
    /\ \E k \in 1 .. Len(ambulances) :
          /\ ~ambulances[k].done
          /\ AtLast(ambulances[k])
          /\ Len(ambulances[k].path) >= 3

\* C10: in each tick a junction's count changes only if some ambulance's cursor
\* moved off that junction in that tick.
C10_DecrementOnlyWhenLeft ==
    [][\A j \in DOMAIN counts_vals :
          counts_vals'[j] # counts_vals[j] =>
              \E k \in 1 .. Len(ambulances) :
                  /\ ~ambulances[k].done
                  /\ Cur(ambulances, k) = j
                  /\ Cur(ambulances', k) # j]_vars
----------------------------------------------------------------------------
(* The two loops that change congestion counts: the multi-agent loop
   (counts_vals) and the Stage-0 loop (counts). *)

CountsInit ==
    \/ MultiInit
    \/ /\ Stage0Init
       /\ path_nodes = << >>
       /\ S2Parked
       /\ RCParked
       /\ GraphParked
       /\ ReplannerParked
       /\ MultiParked
       /\ PSParked
       /\ PFParked

CountsNext == MultiTick \/ Stage0Tick

SpecCounts == CountsInit /\ [][CountsNext]_vars

\* C11: after any sequence of ticks every congestion count is >= 0, in the
\* multi-agent loop and in Stage-0; a decrement-on-pass applied to a count of 0
\* leaves it 0 (counts_vals never grows), and a Stage-0 count of 0 is at most
\* the tick's one arrival afterwards.
C11_CountsNonNegative ==
    /\ [](/\ \A j \in DOMAIN counts_vals : counts_vals[j] >= 0
          /\ \A i \in DOMAIN counts : counts[i] >= 0)
    /\ [][/\ \A j \in DOMAIN counts_vals :
                /\ counts_vals'[j] <= counts_vals[j]
                /\ counts_vals[j] = 0 => counts_vals'[j] = 0
          /\ \A i \in DOMAIN counts :
                counts[i] = 0 => counts'[i] \in {0, 1}]_vars

\* A Stage-0 run on a full map, one tick after the green departures can have
\* emptied counters that started at MIN_PER_JUNC: junctions 0 and 1 are empty
\* and still GREEN.
C11_Witness ==
    /\ script = "stage0"
    /\ tick = MIN_PER_JUNC \div DEPART_WHEN_GREEN + 1
    /\ counts[0] = 0
    /\ counts[1] = 0
    /\ lights[0][1] = GREEN

\* C12: an agent's route is replaced only in a tick whose number is a multiple
\* of REPLAN_INTERVAL and in which the agent is not done and its cursor is
\* before the last route index; the new route starts at the junction the agent
\* occupied, ends at the target, and the cursor is reset to 0 on it before the
\* tick's move (so it is 1 after the tick).
C12_ReplanOnlyAtInterval ==
    [][\A k \in 1 .. Len(ambulances) :
          ambulances'[k].path # ambulances[k].path =>
              /\ sim_ticks' % REPLAN_INTERVAL = 0
              /\ ~ambulances[k].done
              /\ ~AtLast(ambulances[k])
              /\ ambulances'[k].path[1] = Cur(ambulances, k)
              /\ ambulances'[k].path[Len(ambulances'[k].path)] = target
              /\ ambulances'[k].pos_idx = 1]_vars

\* Tick REPLAN_INTERVAL has replaced the route of an ambulance: its route no
\* longer starts at its spawn junction.
C12_Witness ==
    /\ sim_ticks = REPLAN_INTERVAL
    /\ \E k \in 1 .. Len(ambulances) :
          /\ ambulances[k].path[1] # ambulances[k].start
          /\ ambulances[k].pos_idx = 1

\* The junction sequence ambulance a follows from the junction at 0-based
\* index i of its route to the end of the route.
RouteFrom(a, i) == SubSeq(a.path, i + 1, Len(a.path))

\* The routes of adj that extend p, visit no junction twice and end at tgt.
RECURSIVE RoutesOnward(_, _)
RoutesOnward(p, tgt) ==
    IF p[Len(p)] = tgt THEN {p}
    ELSE UNION { RoutesOnward(Append(p, v), tgt) :
                   v \in { adj[p[Len(p)]][i][1] : i \in 1 .. Len(adj[p[Len(p)]]) }
                         \ { p[i] : i \in 1 .. Len(p) } }

\* Ambulance k is replanned in the coming tick.
ReplanDue(k) ==
    /\ (sim_ticks + 1) % REPLAN_INTERVAL = 0
    /\ ~ambulances[k].done
    /\ ~AtLast(ambulances[k])

\* Some route from the junction of ambulance k to the target is strictly
\* cheaper, under the current counts, than the rest of its route.
CheaperExists(k) ==
    LET rem == RouteFrom(ambulances[k], ambulances[k].pos_idx)
    IN  \E rs \in {RoutesOnward(<<Cur(ambulances, k)>>, target)} :
          /\ rem \in rs
          /\ \E p \in rs : C8_PathCost(p, Len(p)) < C8_PathCost(rem, Len(rem))

C14_ReplanNeverFails ==
    \A k \in 1 .. Len(ambulances) :
        ReplanDue(k) =>
            dijkstra_weighted(adj, counts_vals, Cur(ambulances, k), target) # None
----------------------------------------------------------------------------
(* dijkstra_weighted and its spawning caller *)

RoutesInit == ReplannerInit \/ MultiInit

RoutesNext == ReplannerCall \/ MultiTick

SpecRoutes == RoutesInit /\ [][RoutesNext]_vars

\* tgt can be reached from s along edges of adj.
Reachable(s, tgt) == RoutesOnward(<<s>>, tgt) # {}

\* C15: dijkstra_weighted returns None exactly when the target is not reachable
\* from the start; and an ambulance spawned at a junction from which the target
\* is not reachable gets the two-junction route [start, target].
C15_NoneIffUnreachable ==
    /\ returned => (result = None <=> ~Reachable(start, target))
    /\ \A k \in 1 .. Len(ambulances) :
          /\ dijkstra_weighted(adj, counts_vals, ambulances[k].start, target) = None
                 <=> ~Reachable(ambulances[k].start, target)
          /\ ~Reachable(ambulances[k].start, target) =>
                 ambulances[k].path = <<ambulances[k].start, target>>

\* An ambulance has just been spawned at a junction cut off from the target
\* and holds the fallback route.
C15_Witness ==
    /\ sim_ticks = 0
    /\ \E k \in 1 .. Len(ambulances) :
          /\ ~Reachable(ambulances[k].start, target)
          /\ ambulances[k].path = <<ambulances[k].start, target>>

\* Some ambulance is not done.
SomeActive == \E k \in 1 .. Len(ambulances) : ~ambulances[k].done

\* C16 (the part that the explored runs exercise): the loop never runs past
\* max_ticks, no tick is executed once every ambulance is done, and the log is
\* written only after the loop has stopped, with the tick count and the done
\* flag of every ambulance as they are then.
C16_LoopStops ==
    /\ [](sim_ticks <= max_ticks)
    /\ [](multi_log # << >> =>
            /\ ~SomeActive \/ sim_ticks = max_ticks
            /\ multi_log = MultiLog)
    /\ [][sim_ticks' # sim_ticks => (SomeActive /\ sim_ticks < max_ticks /\ multi_log = << >>)]_vars

\* Junctions on the route of some ambulance, where an override could apply.
OnSomeRoute(i) ==
    \E k \in 1 .. Len(ambulances) :
        \E j \in 1 .. Len(ambulances[k].path) : ambulances[k].path[j] = i

\* C17 (as claimed): every tick of the loop advances the signal of every
\* junction by one tick; for a junction on no ambulance's route, where no
\* override is due, the timer is decremented or, when it has run out, the
\* junction moves to the next phase of the cycle.
C17_SignalsAdvanceEachTick ==
    [][ sim_ticks' = sim_ticks + 1 =>
          \A i \in DOMAIN orig_lights :
              ~OnSomeRoute(i) =>
                  \/ /\ orig_lights[i][2] > 1
                     /\ orig_lights'[i] = <<orig_lights[i][1], orig_lights[i][2] - 1>>
                  \/ /\ orig_lights[i][2] <= 1
                     /\ orig_lights'[i][1] = NextPhase(orig_lights[i][1]) ]_vars

\* C18 (as claimed): a junction from which the reference junction cannot be
\* reached is never chosen as a spawn.
C18_SpawnNeverUnreachable ==
    \A k \in 1 .. Len(ambulances) : Reachable(ambulances[k].start, target)

----------------------------------------------------------------------------
(* path_selection.py: spawn junction, hospital selection, route and log *)

\* Largest number of junctions and of hospitals of the path-selection runs.
MaxPSN == 3
MaxHosp == 2

GAMMA == 5

\* Bed counts of hospitals_meta.txt that are explored. beds / max_beds is then
\* 1/2 or 1, exact in floating point.
BedsSet == {128, 256}

\* One line of hospitals_meta.txt, with the coordinates already mapped to the
\* nearest junction: the hospital is at an end of the line or in its middle.
PSHospitals(n) ==
    { [node |-> nd, beds |-> b, specialty |-> sp] :
        nd \in {0, n \div 2, n - 1}, b \in BedsSet, sp \in {0, 1} }

\* The hospital lists explored: up to MaxHosp hospitals at different junctions,
\* in every order.
PSHospitalLists(n) ==
    UNION { { hm \in [1 .. h -> PSHospitals(n)] :
                \A i, j \in 1 .. h : i # j => hm[i].node # hm[j].node } :
            h \in 1 .. MaxHosp }

\* The vehicle counts explored: none anywhere, or 2 at one junction and the
\* same count 0 or 1 at every other. The float costs of the code are exact.
PSCounts(n) ==
    { [i \in 0 .. (n - 1) |-> 0] } \cup
    { [i \in 0 .. (n - 1) |-> IF i = hot THEN 2 ELSE c0] :
        hot \in 0 .. (n - 1), c0 \in 0 .. 1 }

\* hosp_nodes
hosp_nodes(hm) == [h \in 1 .. Len(hm) |-> hm[h].node]

\* The key "d if d < inf else -1".
FarKeyUnreachableFirst(d) == IF d = Inf THEN 1000000000 ELSE d
FarKey(d) == IF d = Inf THEN -1 ELSE d

\* max(range(N), key=...): the first junction with the greatest key.
FirstMax(key) ==
    CHOOSE i \in DOMAIN key :
        /\ \A j \in DOMAIN key : key[j] <= key[i]
        /\ \A j \in DOMAIN key : j < i => key[j] < key[i]

\* min(a, b) with math.inf
MinDist(a, b) == IF a = Inf THEN b ELSE IF b = Inf THEN a ELSE Min(a, b)

\* min_dist_to_hosp over the hospitals 1..k; dijkstra(start) is the plain
\* search PlainDist.
RECURSIVE min_dist_to_hosp(_, _, _)
min_dist_to_hosp(g, hm, k) ==
    IF k = 1 THEN PlainDist(g, hm[1].node)
    ELSE LET m == min_dist_to_hosp(g, hm, k - 1)
             d == PlainDist(g, hm[k].node)
         IN  [i \in DOMAIN g |-> MinDist(m[i], d[i])]

\* spawn_idx as first computed: the junction farthest from its nearest hospital.
spawn_idx(g, hm) ==
    LET m == min_dist_to_hosp(g, hm, Len(hm))
    IN  FirstMax([i \in DOMAIN g |-> FarKey(m[i])])

\* dijkstra_weighted(start, target, alpha, beta) of this script, returning dist
\* and prev. Costs are kept multiplied by 2 * maxc, as the replanner's are:
\* nd = d + alpha*w + beta*(traffic / maxc), traffic = (counts_vals[u] +
\* counts_vals[v]) / 2.0, maxc = max(1.0, max(counts_vals)); and a variant
\* without the division by maxc.
PSEdgeCostRaw(cnt, u, v, w) ==
    2 * Max(1, MaxOf(cnt, Cardinality(DOMAIN cnt))) * ALPHA * w
        + BETA * (cnt[u] + cnt[v]) * Max(1, MaxOf(cnt, Cardinality(DOMAIN cnt)))
PSEdgeCost(cnt, u, v, w) ==
    2 * Max(1, MaxOf(cnt, Cardinality(DOMAIN cnt))) * ALPHA * w + BETA * (cnt[u] + cnt[v])

\* for v,w in adj.get(u,[]): ... if nd < dist[v]: dist[v]=nd; prev[v]=u; push
RECURSIVE PSRelaxEdges(_, _, _, _, _, _)
PSRelaxEdges(cnt, st, u, d, es, k) ==
    IF k > Len(es) THEN st
    ELSE LET v == es[k][1]
             nd == d + PSEdgeCost(cnt, u, v, es[k][2])
         IN  IF st.dist[v] = Inf \/ nd < st.dist[v]
             THEN PSRelaxEdges(cnt,
                      [dist |-> [st.dist EXCEPT ![v] = nd],
                       prev |-> [st.prev EXCEPT ![v] = u],
                       pq |-> st.pq \cup {<<nd, v>>}],
                      u, d, es, k + 1)
             ELSE PSRelaxEdges(cnt, st, u, d, es, k + 1)

\* while pq: d,u = heappop(pq); if d!=dist[u]: continue; if u==target: break
RECURSIVE PSDijkstraLoop(_, _, _, _)
PSDijkstraLoop(g, cnt, tgt, st) ==
    IF st.pq = {} THEN st
    ELSE LET e == CHOOSE e \in st.pq :
                      \A f \in st.pq : e[1] < f[1] \/ (e[1] = f[1] /\ e[2] <= f[2])
             st1 == [st EXCEPT !.pq = st.pq \ {e}]
         IN  IF e[1] # st.dist[e[2]] THEN PSDijkstraLoop(g, cnt, tgt, st1)
             ELSE IF e[2] = tgt THEN st1
             ELSE PSDijkstraLoop(g, cnt, tgt,
                                 PSRelaxEdges(cnt, st1, e[2], e[1], g[e[2]], 1))

PSDijkstraWeighted(g, cnt, s, tgt) ==
    PSDijkstraLoop(g, cnt, tgt,
        [dist |-> [i \in DOMAIN g |-> IF i = s THEN 0 ELSE Inf],
         prev |-> [i \in DOMAIN g |-> -1],
         pq |-> {<<0, s>>}])

\* "reconstruct path using prev_arr": path_tmp is built from the hospital's
\* junction back to the spawn junction and reversed.
RECURSIVE PSBacktrack(_, _, _, _)
PSBacktrack(prev, s, u, acc) ==
    IF u = -1 THEN acc
    ELSE IF u = s THEN <<u>> \o acc
    ELSE PSBacktrack(prev, s, prev[u], <<u>> \o acc)

\* max_beds = max(h['beds'] for h in hosp_meta)
RECURSIVE max_beds(_, _)
max_beds(hm, k) == IF k = 1 THEN hm[1].beds ELSE Max(hm[k].beds, max_beds(hm, k - 1))

\* spec_pen = 0.0 if spec >= 1.0 else 1.0
spec_pen(h) == IF h.specialty >= 1 THEN 0 ELSE 1

\* hosp_penalty = gamma * ((1.0 - beds / max_beds) + spec_pen), multiplied by
\* max_beds to stay an integer; and a variant that ignores the hospital.
hosp_penalty_none(hm, h) == 0
hosp_penalty(hm, h) ==
    LET mb == max_beds(hm, Len(hm))
    IN  GAMMA * ((mb - hm[h].beds) + spec_pen(hm[h]) * mb)

\* total_cost = dcost + hosp_penalty, multiplied by 2 * maxc * max_beds (dcost
\* is kept multiplied by 2 * maxc); inf when the hospital was not reached.
total_cost(cnt, hm, h, dcost) ==
    IF dcost = Inf THEN Inf
    ELSE dcost * max_beds(hm, Len(hm)) + 2 * maxc(cnt) * hosp_penalty(hm, h)

\* The selection loop after the hospitals 1..k: best_hosp_idx (0-based, NoHosp
\* before any hospital was taken), best_cost and best_path. A variant takes
\* a later hospital of equal cost.
\* best_hosp_idx = None
NoHosp == -1
NoBest == [best_hosp_idx |-> NoHosp, best_cost |-> Inf, best_path |-> None]

RECURSIVE SelectHospitalLast(_, _, _, _, _)
SelectHospitalLast(g, cnt, sp, hm, k) ==
    IF k = 0 THEN NoBest
    ELSE LET b == SelectHospitalLast(g, cnt, sp, hm, k - 1)
             node_idx == hm[k].node
             fin == PSDijkstraWeighted(g, cnt, sp, node_idx)
             tc == total_cost(cnt, hm, k, fin.dist[node_idx])
         IN  IF tc # Inf /\ (b.best_cost = Inf \/ tc <= b.best_cost)
             THEN [best_hosp_idx |-> k - 1,
                   best_cost |-> tc,
                   best_path |-> PSBacktrack(fin.prev, sp, node_idx, << >>)]
             ELSE b

RECURSIVE SelectHospital(_, _, _, _, _)
SelectHospital(g, cnt, sp, hm, k) ==
    IF k = 0 THEN NoBest
    ELSE LET b == SelectHospital(g, cnt, sp, hm, k - 1)
             node_idx == hm[k].node
             fin == PSDijkstraWeighted(g, cnt, sp, node_idx)
             tc == total_cost(cnt, hm, k, fin.dist[node_idx])
         IN  IF tc # Inf /\ Less(tc, b.best_cost)
             THEN [best_hosp_idx |-> k - 1,
                   best_cost |-> tc,
                   best_path |-> PSBacktrack(fin.prev, sp, node_idx, << >>)]
             ELSE b

\* farthest = max(range(N), key = dist_from_h or -1): the junction farthest
\* from the chosen hospital.
farthest(g, tgt) ==
    LET d == PlainDist(g, tgt)
    IN  FirstMax([i \in DOMAIN g |-> FarKey(d[i])])

\* "if not path": the route from the recomputed spawn, None when there is none.
PSFallbackPath(g, cnt, sp, tgt) ==
    LET fin == PSDijkstraWeighted(g, cnt, sp, tgt)
    IN  IF fin.dist[tgt] = Inf THEN None ELSE PSBacktrack(fin.prev, sp, tgt, << >>)

\* lights_preempt.coe: the first max(1, int(len(path) * 0.15)) junctions of
\* the route are set to [1, 60].
PSPreempt(fl, path) ==
    LET pc == Max(1, Trunc(Len(path) * 15, 100))
        pre == { path[i] : i \in 1 .. Min(pc, Len(path)) }
    IN  [ni \in DOMAIN fl |-> IF ni \in pre THEN Preempt(fl[ni]) ELSE fl[ni]]

\* The text of a SystemExit.
PSExit(msg) == [exit |-> msg]

\* route_log.txt
RouteLog(g, cnt, hm, sp2, best, path) ==
    LET tgt == hm[best + 1].node
    IN  [exit |-> "",
         spawn_node_index |-> sp2,
         target_hospital_index |-> tgt,
         path_len_nodes |-> Len(path),
         path_nodes |-> path,
         weighted_cost |-> PSDijkstraWeighted(g, cnt, sp2, tgt).dist[tgt],
         hospital_meta_beds |-> hm[best + 1].beds,
         hospital_meta_specialty |-> hm[best + 1].specialty]

PSInit ==
    /\ \E n \in 2 .. MaxPSN :
         /\ \/ \E cut \in -1 .. (n - 2) : adj = MultiGraph(n, cut, 0, 0, 1)
            \/ \E a, b \in 0 .. (n - 1), w \in {1, MaxW} :
                  a + 1 < b /\ adj = MultiGraph(n, -1, a, b, w)
         /\ counts_vals \in PSCounts(n)
         /\ hosp_meta \in PSHospitalLists(n)
    /\ target = 0
    /\ route_log = << >>
    /\ path_nodes = << >>
    /\ orig_lights = [i \in DOMAIN adj |-> <<i % 3, i % (MaxTimer + 1)>>]
    /\ full_lights = << >>
    /\ ambulance_frames = << >>
    /\ t = 0
    /\ S2Parked
    /\ CycleParked
    /\ ReplannerParked
    /\ MultiParked
    /\ PFParked

\* One run of the script from the loaded files to the written outputs.
PathSelect ==
    /\ route_log = << >>
    /\ \E sp \in {spawn_idx(adj, hosp_meta)} :
       \E sel \in {SelectHospital(adj, counts_vals, sp, hosp_meta, Len(hosp_meta))} :
         IF sel.best_hosp_idx = NoHosp
         THEN /\ route_log' = PSExit("No reachable hospital chosen")
              /\ UNCHANGED <<target, path_nodes, full_lights, ambulance_frames>>
         ELSE \E tgt \in {hosp_meta[sel.best_hosp_idx + 1].node} :
              \E sp2 \in {farthest(adj, tgt)} :
              \E path \in {IF sel.best_path = << >>
                           THEN PSFallbackPath(adj, counts_vals, sp2, tgt)
                           ELSE sel.best_path} :
                IF path = None
                THEN /\ route_log' = PSExit("No path found from spawn to hospital")
                     /\ target' = tgt
                     /\ UNCHANGED <<path_nodes, full_lights, ambulance_frames>>
                ELSE /\ target' = tgt
                     /\ path_nodes' = path
                     /\ ambulance_frames' = [i \in 1 .. Len(path) |-> FrameWord(path[i])]
                     /\ full_lights' = PSPreempt(orig_lights, path)
                     /\ route_log' = RouteLog(adj, counts_vals, hosp_meta, sp2,
                                              sel.best_hosp_idx, path)
    /\ UNCHANGED <<adj, counts_vals, hosp_meta, orig_lights, t,
                   s2vars, cyvars, rpvars, mavars, pfvars>>

PSNext == PathSelect

SpecPathSel == PSInit /\ [][PSNext]_vars

\* The script has ended and written its outputs.
Wrote == route_log # << >> /\ route_log.exit = ""

\* Least congestion-aware cost (times 2 * max(1, max count)) of a route from
\* junction sp to hospital h; Inf when there is no route.
C19_PathCost(sp, h) ==
    LET rs == RoutesOnward(<<sp>>, hosp_meta[h].node)
        cs == { C8_PathCost(p, Len(p)) : p \in rs }
    IN  IF rs = {} THEN Inf ELSE CHOOSE c \in cs : \A d \in cs : c <= d

\* The path costs of all hospitals from the spawn junction of the selection.
C19_PathCosts ==
    LET sp == spawn_idx(adj, hosp_meta)
    IN  [h \in 1 .. Len(hosp_meta) |-> C19_PathCost(sp, h)]

\* The greatest bed count of the hospital list.
C19_MaxBeds ==
    CHOOSE b \in { hosp_meta[h].beds : h \in 1 .. Len(hosp_meta) } :
        \A h \in 1 .. Len(hosp_meta) : hosp_meta[h].beds <= b

\* path cost + gamma * ((1 - beds/max_beds) + (0 if specialty else 1)), times
\* 2 * max(1, max count) * max_beds, for a hospital of path cost pc.
C19_Total(pc, h) ==
    LET m == Max(1, MaxOf(counts_vals, Cardinality(DOMAIN counts_vals)))
    IN  pc * C19_MaxBeds
          + 2 * m * 5 * ((C19_MaxBeds - hosp_meta[h].beds)
                          + (IF hosp_meta[h].specialty = 1 THEN 0 ELSE 1) * C19_MaxBeds)

\* The hospitals of the list that the log describes as the chosen one.
C19_Chosen ==
    { h \in 1 .. Len(hosp_meta) :
        /\ hosp_meta[h].node = route_log.target_hospital_index
        /\ hosp_meta[h].beds = route_log.hospital_meta_beds
        /\ hosp_meta[h].specialty = route_log.hospital_meta_specialty }

\* C19: the chosen hospital can be reached from the spawn junction and
\* minimises path cost + gamma * (beds penalty + specialty penalty); no
\* hospital earlier in the list has the same total; and the written route is
\* the predecessor backtrack of the search towards the chosen hospital, a
\* cheapest route from the spawn junction to it.
C19_HospitalSelection ==
    Wrote =>
      \E pc \in {C19_PathCosts} :
      \E tot \in {[h \in 1 .. Len(hosp_meta) |-> C19_Total(pc[h], h)]} :
        /\ C19_Chosen # {}
        /\ \A hi \in C19_Chosen :
             /\ pc[hi] # Inf
             /\ \A h \in 1 .. Len(hosp_meta) : pc[h] # Inf => tot[hi] <= tot[h]
        /\ \E hi \in C19_Chosen :
             /\ \A h \in 1 .. (hi - 1) : pc[h] # Inf => tot[hi] < tot[h]
             /\ \E sp \in {spawn_idx(adj, hosp_meta)} :
                  /\ route_log.path_nodes =
                        PSBacktrack(PSDijkstraWeighted(adj, counts_vals, sp, hosp_meta[hi].node).prev,
                                  sp, hosp_meta[hi].node, << >>)
                  /\ route_log.path_nodes \in RoutesOnward(<<sp>>, hosp_meta[hi].node)
                  /\ C8_PathCost(route_log.path_nodes, Len(route_log.path_nodes)) = pc[hi]
        /\ path_nodes = route_log.path_nodes

\* The script has chosen the first of two hospitals at different junctions
\* that have the same total although their path costs, and so their
\* penalties, differ.
C19_Witness ==
    /\ Wrote
    /\ Len(hosp_meta) = 2
    /\ route_log.target_hospital_index = hosp_meta[1].node
    /\ \E pc \in {C19_PathCosts} :
         /\ pc[1] # Inf
         /\ pc[2] # Inf
         /\ pc[1] # pc[2]
         /\ C19_Total(pc[1], 1) = C19_Total(pc[2], 2)

\* C20 (as claimed): the written route starts at the logged spawn junction,
\* which is the junction farthest from the chosen hospital, and ends at the
\* logged hospital junction.
C20_RouteFromSpawnToHospital ==
    Wrote =>
        /\ route_log.path_nodes[1] = route_log.spawn_node_index
        /\ route_log.path_nodes[Len(route_log.path_nodes)] = route_log.target_hospital_index

----------------------------------------------------------------------------
(* replanner.py, path_selection.py: a search run pop by pop, and run twice *)

\* Largest number of junctions of the graphs searched twice.
MaxSearchN == 4

\* (d, u) < (d2, u2) as heapq compares the tuples it holds: by distance, then
\* by junction index. Two variants: by distance only, and by distance with
\* the larger index first.
HeapLessByDistance(e, f) == e[1] < f[1]
HeapLessLargerIndex(e, f) == e[1] < f[1] \/ (e[1] = f[1] /\ e[2] > f[2])
HeapLess(e, f) == e[1] < f[1] \/ (e[1] = f[1] /\ e[2] < f[2])

\* The entries heapq.heappop may return: those with no smaller entry.
Poppable(pq) == { e \in pq : \A f \in pq : ~HeapLess(f, e) }

\* The edges of u relaxed from a popped entry (d, u): the weighted search adds
\* the congestion term, the plain one only the weight.
SearchRelax(g, cnt, weighted, st, u, d) ==
    IF weighted
    THEN LET r == RelaxEdges(cnt, [dist |-> st.dist, prev |-> st.prev, pq |-> st.pq],
                             u, d, g[u], 1)
         IN  [st EXCEPT !.dist = r.dist, !.prev = r.prev, !.pq = r.pq]
    ELSE LET r == PlainRelax([dist |-> st.dist, pq |-> st.pq], u, d, g[u], 1)
         IN  [st EXCEPT !.dist = r.dist, !.pq = r.pq]

\* Every way the loop "while pq: pop; skip stale; (stop at target;) relax" can
\* run from st, given what heappop may return. order records each settled
\* entry together with the heap it was popped from.
RECURSIVE SearchRuns(_, _, _, _, _)
SearchRuns(g, cnt, tgt, weighted, st) ==
    IF st.pq = {} THEN {st}
    ELSE UNION {
           LET st1 == [st EXCEPT !.pq = st.pq \ {e}]
           IN  IF e[1] # st.dist[e[2]] THEN SearchRuns(g, cnt, tgt, weighted, st1)
               ELSE LET st2 == [st1 EXCEPT !.order = Append(@, <<e, st.pq>>)]
                    IN  IF weighted /\ e[2] = tgt THEN {st2}
                        ELSE SearchRuns(g, cnt, tgt, weighted,
                                        SearchRelax(g, cnt, weighted, st2, e[2], e[1]))
           : e \in Poppable(st.pq) }

SearchStart(g, s) ==
    [dist |-> [i \in DOMAIN g |-> IF i = s THEN 0 ELSE Inf],
     prev |-> [i \in DOMAIN g |-> -1],
     pq |-> {<<0, s>>},
     order |-> << >>]

\* What a finished weighted run returns.
SearchRoute(fin, s, tgt) ==
    IF fin.dist[tgt] = Inf THEN None ELSE Backtrack(fin.prev, s, tgt, << >>)

SearchInit ==
    /\ \E n \in 2 .. MaxSearchN :
         /\ \/ \E cut \in -1 .. (n - 2) : adj = MultiGraph(n, cut, 0, 0, 1)
            \/ \E a, b \in 0 .. (n - 1), w \in 0 .. MaxW :
                  a + 1 < b /\ adj = MultiGraph(n, -1, a, b, w)
         /\ counts_vals \in MultiCounts(n)
         /\ start \in 0 .. (n - 1)
         /\ target \in 0 .. (n - 1)
    /\ result = None
    /\ returned = FALSE
    /\ rerun = << >>
    /\ call = << >>
    /\ ret = << >>
    /\ ret_done = FALSE
    /\ path_nodes = << >>
    /\ S2Parked
    /\ RCParked
    /\ CycleParked
    /\ MultiParked
    /\ PSParked

\* The second run of dijkstra_weighted on the same arguments, and a run of the
\* plain dijkstra(start) on the same graph.
SearchRerun ==
    /\ returned
    /\ rerun = << >>
    /\ \E w \in SearchRuns(adj, counts_vals, target, TRUE, SearchStart(adj, start)) :
       \E p \in SearchRuns(adj, counts_vals, target, FALSE, SearchStart(adj, start)) :
          rerun' = [route |-> SearchRoute(w, start, target),
                    order |-> w.order,
                    plain_dist |-> p.dist,
                    plain_order |-> p.order]
    /\ UNCHANGED <<path_nodes, s2vars, rcvars, cyvars, grvars, rpvars, mavars, psvars,
                   call, ret, ret_done>>

SearchNext == ReplannerCall \/ SearchRerun

SpecSearch == SearchInit /\ [][SearchNext]_vars

\* The second run has ended.
Reran == rerun # << >>

\* C21: the second run of dijkstra_weighted on the same adjacency, counts,
\* start and target returns the route the first run returned.
C21_SameRouteTwice == Reran => rerun.route = result

\* Both runs have ended on inputs with two different cheapest routes from
\* start to target.
C21_Witness ==
    /\ Reran
    /\ result # None
    /\ \E p \in RoutesOnward(<<start>>, target) :
          /\ p # result
          /\ C8_PathCost(p, Len(p)) = C8_PathCost(result, Len(result))

\* Each settled entry of a run is the least of its heap by (distance, index).
LeastOfHeap(order) ==
    \A i \in 1 .. Len(order) :
        \A f \in order[i][2] :
            \/ order[i][1][1] < f[1]
            \/ order[i][1][1] = f[1] /\ order[i][1][2] <= f[2]

\* adj with the edge list of every junction in the opposite order.
ReversedAdj(g) ==
    [u \in DOMAIN g |-> [k \in 1 .. Len(g[u]) |-> g[u][Len(g[u]) + 1 - k]]]

\* C22: in the weighted and in the plain search, every settled entry is the
\* least of the frontier by (distance, junction index); and the result does
\* not depend on the order in which a junction's edges are stored.
C22_SettledBySmallerIndex ==
    Reran =>
        /\ LeastOfHeap(rerun.order)
        /\ LeastOfHeap(rerun.plain_order)
        /\ dijkstra_weighted(ReversedAdj(adj), counts_vals, start, target) = result
        /\ PlainDist(ReversedAdj(adj), start) = rerun.plain_dist

\* Both searches have settled an entry that had a frontier entry of the same
\* distance and a larger index beside it.
SettledOnTie(order) ==
    \E i \in 1 .. Len(order) :
        \E f \in order[i][2] : f[1] = order[i][1][1] /\ f[2] > order[i][1][2]

C22_Witness ==
    /\ Reran
    /\ result # None
    /\ SettledOnTie(rerun.order)
    /\ SettledOnTie(rerun.plain_order)
    /\ ReversedAdj(adj) # adj

----------------------------------------------------------------------------
(* multi_ambulance_runner.py, path_selection.py: build_graph *)

\* Longest junction list and largest number of polylines given to build_graph.
MaxNodes == 2
MaxPolys == 2

\* Junction positions explored: their mutual distances (3, 4 and 5) are whole
\* numbers, so math.hypot is exact on them. Polyline points are these and one
\* point that is no junction.
GridPoints == { <<0, 0>>, <<3, 0>>, <<0, 4>> }
PolyPoints == GridPoints \cup { <<1, 0>> }

\* The polylines explored: one with a single point, and one of three points
\* for every pair of end points.
Polylines ==
    { << <<3, 0>> >> } \cup { <<a, <<1, 0>>, b>> : a, b \in PolyPoints }

\* The call has returned.
Returned(fn) == ret_done /\ call.fn = fn

\* (p[0]-pt[0])**2 + (p[1]-pt[1])**2
SqDist(p, q) == (p[1] - q[1]) * (p[1] - q[1]) + (p[2] - q[2]) * (p[2] - q[2])

\* math.hypot, exact on points whose distance is a whole number (the whole
\* part of the distance otherwise).
euclid(p, q) ==
    CHOOSE r \in 0 .. SqDist(p, q) : r * r <= SqDist(p, q) /\ SqDist(p, q) < (r + 1) * (r + 1)

\* best = None
NoNode == -1

\* node_map = {nodes[i]: i}: a position held by several junctions maps to the
\* last of them. Indices are 0-based.
node_map(nds, pt) ==
    LET is == { i \in 1 .. Len(nds) : nds[i] = pt }
    IN  (CHOOSE i \in is : \A j \in is : j <= i) - 1

\* find_nearest_node_idx: the exact match of node_map, else the first junction
\* at the least squared distance, None for an empty list.
find_nearest_node_idx(nds, pt) ==
    IF \E i \in 1 .. Len(nds) : nds[i] = pt THEN node_map(nds, pt)
    ELSE IF Len(nds) = 0 THEN NoNode
    ELSE (CHOOSE i \in 1 .. Len(nds) :
             /\ \A j \in 1 .. Len(nds) : SqDist(nds[i], pt) <= SqDist(nds[j], pt)
             /\ \A j \in 1 .. (i - 1) : SqDist(nds[j], pt) > SqDist(nds[i], pt)) - 1

\* w = euclid(nodes[a], nodes[b]); and a variant measuring the polyline's own
\* end points.
EdgeWeightOfPolyline(nds, poly, a, b) == euclid(poly[1], poly[Len(poly)])
EdgeWeight(nds, poly, a, b) == euclid(nds[a + 1], nds[b + 1])

\* The edges <<a, b, w>> the loop over the polylines 1..k adds, in order.
RECURSIVE GraphEdges(_, _, _)
GraphEdges(nds, polys, k) ==
    IF k = 0 THEN << >>
    ELSE LET es == GraphEdges(nds, polys, k - 1)
             poly == polys[k]
         IN  IF Len(poly) < 2 THEN es
             ELSE LET a == find_nearest_node_idx(nds, poly[1])
                      b == find_nearest_node_idx(nds, poly[Len(poly)])
                  IN  IF a = NoNode \/ b = NoNode \/ a = b THEN es
                      ELSE Append(es, <<a, b, EdgeWeight(nds, poly, a, b)>>)

\* adj of build_graph; a junction on no edge has the empty list (adj.get(u, [])).
build_graph(nds, polys) ==
    LET es == GraphEdges(nds, polys, Len(polys))
    IN  AdjFromEdges(Len(nds), es, Len(es))

BuildGraphInit ==
    /\ \E nds \in UNION { [1 .. n -> GridPoints] : n \in 0 .. MaxNodes } :
       \E polys \in UNION { [1 .. m -> Polylines] : m \in 0 .. MaxPolys } :
          call = [fn |-> "build_graph", nodes |-> nds, polylines |-> polys]
    /\ ret = << >>
    /\ ret_done = FALSE
    /\ rerun = << >>
    /\ path_nodes = << >>
    /\ S2Parked
    /\ RCParked
    /\ CycleParked
    /\ GraphParked
    /\ ReplannerParked
    /\ MultiParked
    /\ PSParked

BuildGraphCall ==
    /\ ~ret_done
    /\ call.fn = "build_graph"
    /\ ret' = build_graph(call.nodes, call.polylines)
    /\ ret_done' = TRUE
    /\ UNCHANGED <<call, rerun, path_nodes, s2vars, rcvars, cyvars, grvars, rpvars,
                   mavars, psvars>>

BuildGraphNext == BuildGraphCall

SpecBuildGraph == BuildGraphInit /\ [][BuildGraphNext]_vars

\* The number of entries <<v, w>> in the edge list es.
EntryCount(es, v, w) == Cardinality({ k \in 1 .. Len(es) : es[k] = <<v, w>> })

\* C23: in the adjacency build_graph returns, no edge joins a junction to
\* itself, every edge (u, v, w) is stored as often under v as under u with the
\* same weight, and w squared is dx^2 + dy^2 of the two junctions' positions.
C23_BuildGraphEdges ==
    Returned("build_graph") =>
        \A u \in DOMAIN ret :
            \A k \in 1 .. Len(ret[u]) :
                LET v == ret[u][k][1]
                    w == ret[u][k][2]
                IN  /\ v # u
                    /\ v \in DOMAIN ret
                    /\ EntryCount(ret[v], u, w) = EntryCount(ret[u], v, w)
                    /\ w * w = SqDist(call.nodes[u + 1], call.nodes[v + 1])

\* build_graph has returned a graph with an edge of non-zero weight that came
\* from a polyline ending at a point that is no junction, after skipping a
\* polyline whose two ends map to the same junction.
C23_Witness ==
    /\ Returned("build_graph")
    /\ \E u \in DOMAIN ret : \E k \in 1 .. Len(ret[u]) : ret[u][k][2] > 0
    /\ \E i \in 1 .. Len(call.polylines) :
          LET poly == call.polylines[i]
          IN  /\ Len(poly) >= 2
              /\ \A j \in 1 .. Len(call.nodes) : call.nodes[j] # poly[Len(poly)]
              /\ find_nearest_node_idx(call.nodes, poly[1])
                    # find_nearest_node_idx(call.nodes, poly[Len(poly)])
    /\ \E i \in 1 .. Len(call.polylines) :
          LET poly == call.polylines[i]
          IN  /\ Len(poly) >= 2
              /\ find_nearest_node_idx(call.nodes, poly[1])
                    = find_nearest_node_idx(call.nodes, poly[Len(poly)])

----------------------------------------------------------------------------

\* C24 (as claimed): when the multi-ambulance run has ended, every ambulance
\* has one recorded frame per executed tick.
C24_OneFramePerTick ==
    multi_log # << >> =>
        \A k \in 1 .. Len(ambulances) : Len(multi_frames[k]) = sim_ticks

\* C25: the junction at 0-based route position i has, if i < n1, selected
\* green 2.0 x G and red 0.25 x R and others green 0; if n1 <= i < n1 + n2,
\* selected green 1.5 x G and red 0.5 x R and others green 0.5 x G; otherwise
\* selected green G and red 0.6 x R and others green G (truncated, selected
\* values at least 1). A junction off the route keeps the base timings.
C25_TierTimingsByPosition ==
    /\ \A i \in 0 .. (Len(path_nodes) - 1) :
          LET sel == selected_timings[path_nodes[i + 1]]
              oth == others_timings[path_nodes[i + 1]]
          IN  IF i < n1
              THEN /\ sel.G = Max(1, 2 * G_T)
                   /\ sel.R = Max(1, R_T \div 4)
                   /\ oth.G = 0
              ELSE IF i < n1 + n2
              THEN /\ sel.G = Max(1, (3 * G_T) \div 2)
                   /\ sel.R = Max(1, R_T \div 2)
                   /\ oth.G = G_T \div 2
              ELSE /\ sel.G = G_T
                   /\ sel.R = Max(1, (6 * R_T) \div 10)
                   /\ oth.G = G_T
    /\ \A ni \in DOMAIN selected_timings :
          ~OnRoute(ni) =>
              /\ selected_timings[ni] = [G |-> G_T, Y |-> Y_T, R |-> R_T]
              /\ others_timings[ni] = [G |-> G_T, Y |-> Y_T, R |-> R_T]

\* A run over a route of 20 junctions, 3 in tier 1, 8 in tier 2 and 9 in
\* tier 3, has started with the three kinds of timings in place.
C25_Witness ==
    /\ Len(path_nodes) = 20
    /\ step = 1
    /\ <<n1, n2, n3>> = <<3, 8, 9>>
    /\ selected_timings[path_nodes[1]] = [G |-> 120, Y |-> 10, R |-> 7]
    /\ others_timings[path_nodes[1]].G = 0
    /\ selected_timings[path_nodes[4]] = [G |-> 90, Y |-> 10, R |-> 15]
    /\ others_timings[path_nodes[4]].G = 30
    /\ selected_timings[path_nodes[12]] = [G |-> 60, Y |-> 10, R |-> 18]
    /\ others_timings[path_nodes[12]].G = 60

\* ---------------------------------------------------------------------------
\* parse_coe_hex (runtime_controller.py) and parse_coe_points
\* (multi_ambulance_runner.py): the record parser.  A text is a sequence of
\* characters; the header keyword is kept as one piece of text, since no other
\* character of the alphabet occurs in it.
\* ---------------------------------------------------------------------------
MaxText == 3

COEChars == {"0", "x", "X", "f", "F", "g", ",", ";", " ", "memory_initialization"}

Texts == UNION { [1 .. n -> COEChars] : n \in 0 .. MaxText }

\* for ch in [';', '\n', '\r']: text = text.replace(ch, ',')
ReplaceSeparators(text) ==
    [i \in DOMAIN text |-> IF text[i] \in {";", "\n", "\r"} THEN "," ELSE text[i]]

\* text.split(',')
RECURSIVE SplitOnComma(_)
SplitOnComma(text) ==
    IF \A i \in DOMAIN text : text[i] # ","
    THEN <<text>>
    ELSE LET i == CHOOSE j \in DOMAIN text :
                      text[j] = "," /\ \A k \in 1 .. j - 1 : text[k] # ","
         IN  <<SubSeq(text, 1, i - 1)>> \o SplitOnComma(SubSeq(text, i + 1, Len(text)))

Whitespace == {" ", "\t", "\n", "\r", "\f"}

\* t.strip()
RECURSIVE strip(_)
strip(tok) ==
    IF tok = << >> THEN tok
    ELSE IF Head(tok) \in Whitespace THEN strip(Tail(tok))
    ELSE IF tok[Len(tok)] \in Whitespace THEN strip(SubSeq(tok, 1, Len(tok) - 1))
    ELSE tok

\* toks = [t.strip() for t in text.split(',') if t.strip()]
Tokens(text) ==
    LET parts == SplitOnComma(ReplaceSeparators(text))
        IsToken(tok) == tok # << >>
    IN  SelectSeq([i \in DOMAIN parts |-> strip(parts[i])], IsToken)

\* str.lower() of one character
lower(c) ==
    CASE c = "A" -> "a" [] c = "B" -> "b" [] c = "C" -> "c" [] c = "D" -> "d"
      [] c = "E" -> "e" [] c = "F" -> "f" [] c = "X" -> "x"
      [] OTHER -> c

\* t.lower().startswith('memory_initialization')
IsHeaderKeyword(tok) == tok # << >> /\ lower(tok[1]) = "memory_initialization"

\* if tt.lower().startswith('0x'): tt = tt[2:]
StripHexPrefix(tok) ==
    IF Len(tok) >= 2 /\ lower(tok[1]) = "0" /\ lower(tok[2]) = "x"
    THEN SubSeq(tok, 3, Len(tok))
    ELSE tok

HexDigits == <<"0", "1", "2", "3", "4", "5", "6", "7", "8", "9",
               "a", "b", "c", "d", "e", "f">>

IsHexDigit(c) == \E d \in DOMAIN HexDigits : HexDigits[d] = lower(c)

\* all(c in '0123456789abcdefABCDEF' for c in tt); true of the empty string
AllHexDigits(tt) == \A i \in DOMAIN tt : IsHexDigit(tt[i])

HexDigitValue(c) == (CHOOSE d \in DOMAIN HexDigits : HexDigits[d] = lower(c)) - 1

RECURSIVE HexValue(_)
HexValue(tt) ==
    IF tt = << >> THEN 0
    ELSE 16 * HexValue(SubSeq(tt, 1, Len(tt) - 1)) + HexDigitValue(tt[Len(tt)])

\* int(tt, 16) raises ValueError on the empty string.
IntRaises(tt) == tt = << >>

\* The tokens that reach int(tt, 16), prefix removed.
Converted(text) ==
    LET toks == Tokens(text)
        Reaches(tok) == ~IsHeaderKeyword(tok) /\ AllHexDigits(StripHexPrefix(tok))
        kept == SelectSeq(toks, Reaches)
    IN  [i \in DOMAIN kept |-> StripHexPrefix(kept[i])]

parse_coe_hex(text) ==
    LET tts == Converted(text)
    IN  IF \E i \in DOMAIN tts : IntRaises(tts[i])
        THEN [raised |-> TRUE, vals |-> << >>]
        ELSE [raised |-> FALSE, vals |-> [i \in DOMAIN tts |-> HexValue(tts[i])]]

ParseInit ==
    /\ \E text \in Texts : call = [fn |-> "parse_coe_hex", text |-> text]
    /\ ret = << >>
    /\ ret_done = FALSE
    /\ rerun = << >>
    /\ path_nodes = << >>
    /\ S2Parked
    /\ RCParked
    /\ CycleParked
    /\ GraphParked
    /\ ReplannerParked
    /\ MultiParked
    /\ PSParked

ParseCall ==
    /\ ~ret_done
    /\ call.fn = "parse_coe_hex"
    /\ ret' = parse_coe_hex(call.text)
    /\ ret_done' = TRUE
    /\ UNCHANGED <<call, rerun, path_nodes, s2vars, rcvars, cyvars, grvars, rpvars,
                   mavars, psvars>>

ParseNext == ParseCall

SpecParse == ParseInit /\ [][ParseNext]_vars

\* A token is a hexadecimal number when, after an optional 0x, it is one or
\* more hexadecimal digits.
IsHexNumber(tok) ==
    /\ StripHexPrefix(tok) # << >>
    /\ AllHexDigits(StripHexPrefix(tok))

\* The values of the tokens that are hexadecimal numbers and not header
\* keywords, in input order.
HexNumberValues(text) ==
    LET toks == Tokens(text)
        Counts(tok) == ~IsHeaderKeyword(tok) /\ IsHexNumber(tok)
        kept == SelectSeq(toks, Counts)
    IN  [i \in DOMAIN kept |-> HexValue(StripHexPrefix(kept[i]))]

\* C26: the record parser never raises: it skips every token that is not a
\* hexadecimal number and every header keyword token, and returns the values of
\* the remaining tokens in input order.
C26_SkipsWithoutRaising ==
    Returned("parse_coe_hex") =>
        /\ ~ret.raised
        /\ ret.vals = HexNumberValues(call.text)

\* ---------------------------------------------------------------------------
\* stage0_traffic_heat.py: the writers of vehicles_counts.coe and
\* vehicles_counts_full.coe, one word per junction.
\* ---------------------------------------------------------------------------
\* Counts up to MaxOver above the largest 16-bit value are explored.
MaxOver == 40

WORD16 == 65536

\* The counts a word is written for: the small ones, the largest a Stage-0 run
\* can hold (every vehicle at one junction and an arrival in every tick), and
\* those on both sides of the largest 16-bit value and of its double.
WriterCounts ==
    (0 .. MaxOver)
        \cup {TOTAL_VEH, TOTAL_VEH + SIM_TICKS}
        \cup ((WORD16 - 1 - MaxOver) .. (WORD16 - 1 + MaxOver))
        \cup ((2 * WORD16 - 2) .. (2 * WORD16 + 1))

\* min(c, 0xFFFF): saturation instead of the mask.
Clamp16(c) == Min(c, WORD16 - 1)

\* c & 0xFFFF
Mask16(c) == c % WORD16

UpperHexDigits == <<"0", "1", "2", "3", "4", "5", "6", "7", "8", "9",
                    "A", "B", "C", "D", "E", "F">>

\* format(v, 'X')
RECURSIVE FormatHex(_)
FormatHex(v) ==
    IF v < 16 THEN <<UpperHexDigits[v + 1]>>
    ELSE FormatHex(v \div 16) \o <<UpperHexDigits[(v % 16) + 1]>>

\* format(v, '04X'): zero-padded to at least four digits
RECURSIVE ZeroPad4(_)
ZeroPad4(digits) == IF Len(digits) >= 4 THEN digits ELSE ZeroPad4(<<"0">> \o digits)

FormatHex4(v) == ZeroPad4(FormatHex(v))

\* f.write(format(c & 0xFFFF, '04X')): the token written for a count
congestion_token(c) == FormatHex4(Mask16(c))

WriterInit ==
    /\ \E c \in WriterCounts : call = [fn |-> "vehicles_counts", count |-> c]
    /\ ret = << >>
    /\ ret_done = FALSE
    /\ rerun = << >>
    /\ path_nodes = << >>
    /\ S2Parked
    /\ RCParked
    /\ CycleParked
    /\ GraphParked
    /\ ReplannerParked
    /\ MultiParked
    /\ PSParked

WriterCall ==
    /\ ~ret_done
    /\ call.fn = "vehicles_counts"
    /\ ret' = congestion_token(call.count)
    /\ ret_done' = TRUE
    /\ UNCHANGED <<call, rerun, path_nodes, s2vars, rcvars, cyvars, grvars, rpvars,
                   mavars, psvars>>

WriterNext == WriterCall

SpecWriter == WriterInit /\ [][WriterNext]_vars

PHASE_MASK == 3
TIMER_MASK == 16383
PHASE_SHIFT == 14

RECURSIVE BitAnd(_, _)
BitAnd(a, b) ==
    IF a = 0 \/ b = 0 THEN 0
    ELSE 2 * BitAnd(a \div 2, b \div 2) + (IF a % 2 = 1 /\ b % 2 = 1 THEN 1 ELSE 0)

RECURSIVE BitOr(_, _)
BitOr(a, b) ==
    IF a = 0 THEN b
    ELSE IF b = 0 THEN a
    ELSE 2 * BitOr(a \div 2, b \div 2) + (IF a % 2 = 1 \/ b % 2 = 1 THEN 1 ELSE 0)

RECURSIVE ShiftLeft(_, _)
ShiftLeft(a, k) == IF k = 0 THEN a ELSE ShiftLeft(2 * a, k - 1)

RECURSIVE ShiftRight(_, _)
ShiftRight(a, k) == IF k = 0 THEN a ELSE ShiftRight(a \div 2, k - 1)

\* ((st & 0x3) << 13) | (tm & 0x3FFF): the phase one bit too low.
SignalWordLow(st, tm) ==
    BitOr(ShiftLeft(BitAnd(st, PHASE_MASK), PHASE_SHIFT - 1), BitAnd(tm, TIMER_MASK))

\* word = ((st & 0x3) << 14) | (tm & 0x3FFF)
SignalWord(st, tm) ==
    BitOr(ShiftLeft(BitAnd(st, PHASE_MASK), PHASE_SHIFT), BitAnd(tm, TIMER_MASK))

\* st = (v>>14)&0x3
UnpackPhase(v) == BitAnd(ShiftRight(v, PHASE_SHIFT), PHASE_MASK)

\* tm = v & 0x3FFF
UnpackTimer(v) == BitAnd(v, TIMER_MASK)

\* The phases and timers of full_lights: what unpacking a word can give.
SignalInit ==
    /\ \E st \in 0 .. PHASE_MASK :
       \E tm \in 0 .. TIMER_MASK :
          call = [fn |-> "signal_word", st |-> st, tm |-> tm]
    /\ ret = << >>
    /\ ret_done = FALSE
    /\ rerun = << >>
    /\ path_nodes = << >>
    /\ S2Parked
    /\ RCParked
    /\ CycleParked
    /\ GraphParked
    /\ ReplannerParked
    /\ MultiParked
    /\ PSParked

\* The word is written as format(word, '04X'), read back by parse_coe_hex and
\* unpacked.
SignalRoundTrip ==
    /\ ~ret_done
    /\ call.fn = "signal_word"
    /\ \E word \in {SignalWord(call.st, call.tm)} :
       \E vals \in {parse_coe_hex(FormatHex4(word))} :
          ret' = [word |-> word,
                  token |-> FormatHex4(word),
                  raised |-> vals.raised,
                  st |-> UnpackPhase(vals.vals[1]),
                  tm |-> UnpackTimer(vals.vals[1])]
    /\ ret_done' = TRUE
    /\ UNCHANGED <<call, rerun, path_nodes, s2vars, rcvars, cyvars, grvars, rpvars,
                   mavars, psvars>>

SignalNext == SignalRoundTrip

SpecSignal == SignalInit /\ [][SignalNext]_vars

\* C28: for every phase in 0..2 and timer in 0..16383, the packed word fits in
\* 16 bits (it is written as four digits) and unpacking it gives back the same
\* phase and timer.
C28_SignalWordRoundTrip ==
    (Returned("signal_word") /\ call.st \in 0 .. 2 /\ call.tm \in 0 .. 16383) =>
        /\ ret.word \in 0 .. 65535
        /\ Len(ret.token) = 4
        /\ ~ret.raised
        /\ ret.st = call.st
        /\ ret.tm = call.tm

\* YELLOW with the largest timer has been packed as BFFF and unpacked.
C28_Witness ==
    /\ Returned("signal_word")
    /\ call.st = 2
    /\ call.tm = 16383
    /\ ret.word = 49151
    /\ ret.token = <<"B", "F", "F", "F">>
    /\ ret.st = 2
    /\ ret.tm = 16383

\* ---------------------------------------------------------------------------
\* path_selection.py load_edges_polylines: the word stream of the edges file
\* decoded into polylines.
\* ---------------------------------------------------------------------------
MaxWords == 4

END_FLAG == 524288
COORD_MASK == 524287
XY_MASK == 1023
X_SHIFT == 10

\* The words of the stream: two points with and without the end flag, the
\* flagged origin, and a word with a bit above the flag.
EdgeWords == {5, 1026, END_FLAG + 5, END_FLAG + 1026, END_FLAG, 2 * END_FLAG + 7}

WordStreams == UNION { [1 .. n -> EdgeWords] : n \in 0 .. MaxWords }

\* flag = (v & 0x80000) != 0
EndFlag(v) == BitAnd(v, END_FLAG) # 0

\* coord = v & 0x7FFFF; x = (coord>>10)&0x3FF; y = coord & 0x3FF
DecodePoint(v) ==
    LET coord == BitAnd(v, COORD_MASK)
    IN  <<BitAnd(ShiftRight(coord, X_SHIFT), XY_MASK), BitAnd(coord, XY_MASK)>>

\* A loop body that closes the polyline before the flagged word's point.
DecodeWordFlagFirst(st, v) ==
    IF EndFlag(v)
    THEN [polylines |-> IF st.cur # << >> THEN Append(st.polylines, st.cur)
                        ELSE st.polylines,
          cur |-> <<DecodePoint(v)>>]
    ELSE [polylines |-> st.polylines, cur |-> Append(st.cur, DecodePoint(v))]

\* The body of `for v in vals`.
DecodeWord(st, v) ==
    LET cur == Append(st.cur, DecodePoint(v))
    IN  IF EndFlag(v)
        THEN [polylines |-> IF cur # << >> THEN Append(st.polylines, cur)
                            ELSE st.polylines,
              cur |-> << >>]
        ELSE [polylines |-> st.polylines, cur |-> cur]

RECURSIVE DecodeWords(_, _)
DecodeWords(st, vals) ==
    IF vals = << >> THEN st ELSE DecodeWords(DecodeWord(st, Head(vals)), Tail(vals))

load_edges_polylines(vals) ==
    LET st == DecodeWords([polylines |-> << >>, cur |-> << >>], vals)
    IN  IF st.cur # << >> THEN Append(st.polylines, st.cur) ELSE st.polylines

PolylinesInit ==
    /\ \E vals \in WordStreams : call = [fn |-> "load_edges_polylines", vals |-> vals]
    /\ ret = << >>
    /\ ret_done = FALSE
    /\ rerun = << >>
    /\ path_nodes = << >>
    /\ S2Parked
    /\ RCParked
    /\ CycleParked
    /\ GraphParked
    /\ ReplannerParked
    /\ MultiParked
    /\ PSParked

PolylinesCall ==
    /\ ~ret_done
    /\ call.fn = "load_edges_polylines"
    /\ ret' = load_edges_polylines(call.vals)
    /\ ret_done' = TRUE
    /\ UNCHANGED <<call, rerun, path_nodes, s2vars, rcvars, cyvars, grvars, rpvars,
                   mavars, psvars>>

PolylinesNext == PolylinesCall

SpecPolylines == PolylinesInit /\ [][PolylinesNext]_vars

\* The number of points in the first k polylines of ps.
RECURSIVE PointsBefore(_, _)
PointsBefore(ps, k) == IF k = 0 THEN 0 ELSE Len(ps[k]) + PointsBefore(ps, k - 1)

\* Bit 19 of a word, and the point in its low 19 bits, by division.
HasBit19(v) == (v \div 524288) % 2 = 1
PointOfWord(v) == <<(v \div 1024) % 512, v % 1024>>

\* C29: the polylines returned for a word stream are not empty; their points,
\* one after the other, are the points of the words in input order, one point
\* per word; within a polyline only the last word can have bit 19 set, and it
\* has in every polyline but possibly the last one (which then holds the words
\* after the last flagged word).
C29_PolylinesSplitAtFlags ==
    Returned("load_edges_polylines") =>
        /\ \A k \in DOMAIN ret : Len(ret[k]) > 0
        /\ PointsBefore(ret, Len(ret)) = Len(call.vals)
        /\ \A k \in DOMAIN ret :
              \A j \in DOMAIN ret[k] :
                 LET i == PointsBefore(ret, k - 1) + j
                 IN  /\ ret[k][j] = PointOfWord(call.vals[i])
                     /\ j < Len(ret[k]) => ~HasBit19(call.vals[i])
                     /\ (j = Len(ret[k]) /\ k < Len(ret)) => HasBit19(call.vals[i])
        /\ (call.vals # << >> /\ ~HasBit19(call.vals[Len(call.vals)])) =>
              \A i \in DOMAIN call.vals :
                 (\A m \in i .. Len(call.vals) : ~HasBit19(call.vals[m]))
                     => i > PointsBefore(ret, Len(ret) - 1)

\* A stream of four words, the second flagged, has been decoded into a
\* polyline of two points and a final polyline of the two words after it.
C29_Witness ==
    /\ Returned("load_edges_polylines")
    /\ call.vals = <<5, END_FLAG + 1026, 1026, 5>>
    /\ ret = << <<<<0, 5>>, <<1, 2>>>>, <<<<1, 2>>, <<0, 5>>>> >>

\* ---------------------------------------------------------------------------
\* stage0_traffic_heat.py: the initial counters as a function of the number
\* of junctions in the map.
\* ---------------------------------------------------------------------------
\* Largest map explored; K is the same for every map of FullMap junctions or
\* more.
MaxMapNodes == 120

\* K = min(N_TOTAL_NODES, TOTAL_VEH // MIN_PER_JUNC); if K <= 0: K = min(N, 1)
ActiveJunctions(n_total) ==
    LET K == Min(n_total, TOTAL_VEH \div MIN_PER_JUNC)
    IN  IF K <= 0 THEN Min(n_total, 1) ELSE K

InitialCountsInit ==
    /\ \E n_total \in 1 .. MaxMapNodes : call = [fn |-> "initial_counts", N |-> n_total]
    /\ ret = << >>
    /\ ret_done = FALSE
    /\ rerun = << >>
    /\ path_nodes = << >>
    /\ S2Parked
    /\ RCParked
    /\ CycleParked
    /\ GraphParked
    /\ ReplannerParked
    /\ MultiParked
    /\ PSParked

InitialCountsCall ==
    /\ ~ret_done
    /\ call.fn = "initial_counts"
    /\ ret' = InitialCounts(ActiveJunctions(call.N))
    /\ ret_done' = TRUE
    /\ UNCHANGED <<call, rerun, path_nodes, s2vars, rcvars, cyvars, grvars, rpvars,
                   mavars, psvars>>

InitialCountsNext == InitialCountsCall

SpecInitialCounts == InitialCountsInit /\ [][InitialCountsNext]_vars

\* C30: for every map of N >= 1 junctions there are K = min(N, 100) initial
\* counters, they sum to exactly 5000 and each is at least 50.
C30_InitialCountsSum ==
    Returned("initial_counts") =>
        /\ DOMAIN ret = 0 .. (Min(call.N, 100) - 1)
        /\ SumTo(ret, Min(call.N, 100)) = 5000
        /\ \A i \in DOMAIN ret : ret[i] >= 50

\* The counters of a map of seven junctions have been set: 5000 is not a
\* multiple of 7 and the first two junctions hold one vehicle more.
C30_Witness ==
    /\ Returned("initial_counts")
    /\ call.N = 7
    /\ ret = [i \in 0 .. 6 |-> IF i < 2 THEN 715 ELSE 714]

----------------------------------------------------------------------------
(* runtime_controller.py: the pre-emption window after a tick *)

\* C31: after every tick tk of runtime_controller, each of the junctions
\* path_nodes[tk : tk + preempt_count] (the junction the ambulance occupies and
\* the next ones of its route, preempt_count = max(1, int(0.15 * len))) is
\* GREEN with timer 60.
C31_WindowGreen60 ==
    t > 0 => \A i \in Window(t - 1) : full_lights[i] = <<GREEN, 60>>

\* A tick of a route long enough for a window of two junctions has turned the
\* occupied junction and the next one GREEN with timer 60, and one of them was
\* loaded in another phase.
C31_Witness ==
    /\ t > 0
    /\ t < ticks
    /\ preempt_count = 2
    /\ full_lights[path_nodes[t]] = <<GREEN, 60>>
    /\ full_lights[path_nodes[t + 1]] = <<GREEN, 60>>
    /\ orig_lights[path_nodes[t + 1]][1] # GREEN

----------------------------------------------------------------------------
(* stage0_traffic_heat.py and generate_lights_and_ambulance.py: timer range *)

\* The configured duration of a phase in the script that is running.
ConfiguredDuration(st) == IF script = "stage0" THEN PhaseTicks(st) ELSE PhaseLen(st)

\* C32: in the Stage-0 and generate_lights signal machines, initially and after
\* every tick, each junction's timer is at least 1 and at most the configured
\* duration of the junction's current phase.
C32_TimerWithinPhase ==
    \A j \in DOMAIN lights :
        /\ lights[j][2] >= 1
        /\ lights[j][2] <= ConfiguredDuration(lights[j][1])

\* The first Stage-0 tick has moved junction 0 into YELLOW with the full
\* YELLOW duration (a junction that started in YELLOW would show less).
C32_Witness ==
    /\ script = "stage0"
    /\ tick = 1
    /\ lights[0] = <<YELLOW, Y_T>>

----------------------------------------------------------------------------
(* stage0_traffic_heat.py and generate_lights_and_ambulance.py: how long a
   junction stays in a phase.  Runs long enough for every phase to be entered
   and left by a transition: one Stage-0 junction without arrivals, two
   generate_lights junctions. *)

\* Ticks and frames explored (SIM_TICKS and N_FRAMES cap the loops themselves).
MaxDwellTicks == 165
MaxDwellFrames == 455

DwellInit ==
    /\ \/ /\ script = "stage0"
          /\ counts = InitialCounts(1)
          /\ lights \in [0 .. 0 -> UNION { { <<st, tm>> : tm \in 1 .. PhaseTicks(st) } :
                                             st \in {RED, GREEN, YELLOW} }]
          /\ dwell = [i \in DOMAIN lights |-> DwellStart]
          /\ tick = 0
          /\ GLParked
       \/ GLInit
    /\ path_nodes = << >>
    /\ S2Parked
    /\ RCParked
    /\ GraphParked
    /\ ReplannerParked
    /\ MultiParked
    /\ PSParked
    /\ PFParked

DwellStage0Tick ==
    /\ tick < MaxDwellTicks
    /\ Stage0Update({ {} })

DwellGLFrame ==
    /\ frame < MaxDwellFrames
    /\ GLUpdate

DwellNext == DwellStage0Tick \/ DwellGLFrame

SpecDwell == DwellInit /\ [][DwellNext]_vars

\* C33: in both free-running signal machines, a junction that entered a phase
\* by a transition stays in it for exactly the phase's configured duration in
\* ticks: a stay that has ended lasted that long, and a stay that has not ended
\* is shorter.
C33_DwellIsDuration ==
    \A j \in DOMAIN dwell :
        /\ dwell[j].last # << >> =>
              dwell[j].last[2] = ConfiguredDuration(dwell[j].last[1])
        /\ dwell[j].since >= 0 =>
              dwell[j].since < ConfiguredDuration(lights[j][1])

\* Junction 0 of a generate_lights run has just left GREEN, which it had
\* entered by a transition 120 frames before.
C33_Witness ==
    /\ script = "genlights"
    /\ lights[0] = <<YELLOW, YELLOW_LEN>>
    /\ dwell[0] = [since |-> 0, last |-> <<GREEN, GREEN_LEN>>]

----------------------------------------------------------------------------
(* multi_ambulance_runner.py: the counts read by the solves of one tick *)

\* A road graph on which the decrement of one agent can change the route of
\* another: two approach roads 3-9-7 and 4-6-7 join at junction 7 and go on
\* through 5 to junction 2, from where the target 1 is reached through
\* junction 0 or, over an edge of weight w, through junction 8.
ForkEdges(w) ==
    << <<0, 1, 3>>, <<0, 2, 1>>, <<1, 8, 3>>, <<2, 5, 1>>, <<2, 8, w>>,
       <<3, 9, 1>>, <<4, 6, 1>>, <<5, 7, 1>>, <<6, 7, 1>>, <<7, 9, 1>> >>

ForkCounts == { [i \in 0 .. 9 |-> IF i = 2 THEN c2 ELSE IF i = 0 THEN c0
                                  ELSE IF i = 8 THEN c8 ELSE 0] :
                  c2 \in 0 .. 2, c0 \in 0 .. 2, c8 \in 0 .. 2 }

\* The runs of MultiInit and the runs on the fork.
SnapshotInit ==
    \/ MultiInit
    \/ /\ \E w \in 1 .. MaxW : adj = AdjFromEdges(10, ForkEdges(w), Len(ForkEdges(w)))
       /\ counts_vals \in ForkCounts
       /\ target = 1
       /\ \E sp \in {spawns(adj, target)} :
            /\ ambulances = [k \in 1 .. Len(sp) |->
                                SpawnAmbulance(adj, counts_vals, sp[k], target)]
            /\ multi_frames = [k \in 1 .. Len(sp) |-> << >>]
       /\ sim_ticks = 0
       /\ multi_log = << >>
       /\ orig_lights = [i \in DOMAIN adj |-> <<i % 3, i % (MaxTimer + 1)>>]
       /\ full_lights = << >>
       /\ ambulance_frames = << >>
       /\ t = 0
       /\ path_nodes = << >>
       /\ S2Parked
       /\ CycleParked
       /\ ReplannerParked
       /\ PSParked
       /\ PFParked

SpecSnapshot == SnapshotInit /\ [][MultiNext]_vars

\* C34: in a tick of the multi-agent loop every agent that replans takes the
\* route the solver returns on the counts as they stand at the start of the
\* tick, whatever the agents before it did in the tick, and the counts after
\* the tick are those of its start with the decrements of the agents' passed
\* junctions applied once all agents have moved.
C34_OneSnapshotPerTick ==
    [][sim_ticks' = sim_ticks + 1 =>
          /\ \A k \in 1 .. Len(ambulances) :
                ReplanDue(k) =>
                    \E newp \in {dijkstra_weighted(adj, counts_vals, Cur(ambulances, k), target)} :
                        newp # None =>
                            /\ ambulances'[k].path = newp
                            /\ ambulances'[k].pos_idx = 1
          /\ counts_vals' = DecrementPassed(counts_vals, ambulances', Len(ambulances))]_vars

\* The fifth tick has made both agents replan at junction 2 of the fork, where
\* two vehicles were counted: both took the route through junction 0, and
\* junction 2 was decremented twice after they had moved.
C34_Witness ==
    /\ sim_ticks = REPLAN_INTERVAL
    /\ Len(ambulances) = 2
    /\ \A k \in 1 .. 2 : ambulances[k].path = <<2, 0, 1>> /\ ambulances[k].pos_idx = 1
    /\ counts_vals[2] = 0
    /\ counts_vals[0] = 1

----------------------------------------------------------------------------
(* multi_ambulance_runner.py: consecutive frames of an agent *)

\* Junction u and the junctions joined to it by an edge of adj.
SameOrJoined(u) == {u} \cup { adj[u][i][1] : i \in 1 .. Len(adj[u]) }

\* C35: for an agent whose initial route was found by the solver (its target
\* is reachable from its spawn junction), any two consecutive recorded frames
\* are the positions of one junction or of two junctions joined by an edge,
\* across any number of replans.
C35_FramesFollowEdges ==
    \A k \in 1 .. Len(ambulances) :
        Reachable(ambulances[k].start, target) =>
            \A i \in 1 .. (Len(multi_frames[k]) - 1) :
                \E u \in DOMAIN adj :
                    /\ FrameWord(u) = multi_frames[k][i]
                    /\ \E v \in SameOrJoined(u) : FrameWord(v) = multi_frames[k][i + 1]

\* The first agent has replanned at tick 5 (its cursor was reset then and is
\* at 2 after tick 6) and has recorded six frames.
C35_Witness ==
    /\ sim_ticks = 6
    /\ Len(ambulances) = 2
    /\ Len(multi_frames[1]) = 6
    /\ ambulances[1].pos_idx = 2
    /\ ~ambulances[1].done
    /\ Reachable(ambulances[1].start, target)

----------------------------------------------------------------------------
(* replanner.py: shape of a returned route *)

\* C36: every route returned by dijkstra_weighted starts at the start
\* junction, ends at the target junction, joins each consecutive pair of
\* junctions by an edge of the graph, and visits no junction twice.
C36_RouteIsSimplePath ==
    (returned /\ result # None) =>
        /\ result[1] = start
        /\ result[Len(result)] = target
        /\ \A i \in 1 .. (Len(result) - 1) :
              \E e \in 1 .. Len(adj[result[i]]) : adj[result[i]][e][1] = result[i + 1]
        /\ \A i, j \in 1 .. Len(result) : result[i] = result[j] => i = j

\* A call has returned a route of four junctions.
C36_Witness ==
    /\ returned
    /\ result # None
    /\ Len(result) = 4
    /\ start # target

\* ---------------------------------------------------------------------------
\* The two weighted searches side by side: path_selection's dijkstra_weighted
\* followed by its predecessor backtracking, and replanner.dijkstra_weighted,
\* on the same adjacency, counts, start and target.
\* ---------------------------------------------------------------------------

\* The route path_selection reconstructs from the prev array of its search.
PSRoute(g, cnt, s, tgt) ==
    PSBacktrack(PSDijkstraWeighted(g, cnt, s, tgt).prev, s, tgt, << >>)

TwoSolversInit == SearchInit

TwoSolversCall ==
    /\ ~ret_done
    /\ call' = [fn |-> "two_solvers", start |-> start, target |-> target]
    /\ ret' = [ps |-> PSRoute(adj, counts_vals, start, target),
               ps_dist |-> PSDijkstraWeighted(adj, counts_vals, start, target).dist[target],
               rp |-> dijkstra_weighted(adj, counts_vals, start, target)]
    /\ ret_done' = TRUE
    /\ UNCHANGED <<path_nodes, s2vars, rcvars, cyvars, grvars, rpvars, mavars, psvars,
                   rerun>>

TwoSolversNext == TwoSolversCall

SpecTwoSolvers == TwoSolversInit /\ [][TwoSolversNext]_vars

\* C37: for every graph, congestion vector, start and target reachable from
\* the start, the route path_selection's search and backtracking give is the
\* route replanner.dijkstra_weighted returns.
C37_SameRouteBothSolvers ==
    (Returned("two_solvers") /\ Reachable(start, target)) =>
        /\ ret.rp # None
        /\ ret.ps_dist # Inf
        /\ ret.ps = ret.rp

\* Both searches have run on a graph with a bypass, unequal counts and a
\* target three or more junctions away.
C37_Witness ==
    /\ Returned("two_solvers")
    /\ Reachable(start, target)
    /\ ret.rp # None
    /\ Len(ret.rp) >= 3
    /\ \E i, j \in DOMAIN counts_vals : counts_vals[i] # counts_vals[j]
    /\ \E p \in RoutesOnward(<<start>>, target) : p # ret.rp

\* ---------------------------------------------------------------------------
\* The multi-agent loop as a running program: "while ticks < max_ticks and not
\* all done" executes its body as long as its condition holds, so the loop
\* iteration is weakly fair.
\* ---------------------------------------------------------------------------

\* The loop condition of "while ticks < max_ticks and not all(a['done'] ...)",
\* within the explored tick budget.
MultiLoopCond ==
    /\ sim_ticks < max_ticks
    /\ sim_ticks < MaxSimTicks
    /\ \E k \in 1 .. Len(ambulances) : ~ambulances[k].done

\* An iteration of the loop seen through the tick counter alone. MultiTick is
\* the only step that changes sim_ticks and is enabled exactly when the loop
\* condition holds, so weak fairness of this step is weak fairness of
\* MultiTick.
MultiLoopStep == MultiLoopCond /\ sim_ticks' = sim_ticks + 1

SpecMultiFair ==
    /\ SnapshotInit
    /\ [][MultiNext]_vars
    /\ WF_sim_ticks(MultiLoopStep)

\* C38: every agent of the multi-agent loop whose target is reachable from
\* its spawn junction eventually becomes done, whatever replans and count
\* decrements happen on the way.
C38_ReachableAgentsFinish ==
    \A k \in 1 .. N_AMB :
        [](  (k \in DOMAIN ambulances /\ Reachable(ambulances[k].start, target))
             => <>(ambulances[k].done)  )

\* An agent with a reachable target is done after walking through a replan
\* (its route had six junctions or more) while a count was lowered under it,
\* with ticks of the explored budget to spare.
C38_Witness ==
    /\ sim_ticks < MaxSimTicks
    /\ \E k \in DOMAIN ambulances :
          /\ ambulances[k].done
          /\ Reachable(ambulances[k].start, target)
          /\ ambulances[k].start # target
          /\ Len(multi_frames[k]) > REPLAN_INTERVAL + 1

\* ---------------------------------------------------------------------------
\* path_selection.py: the exit 'No reachable hospital chosen'
\* ---------------------------------------------------------------------------

\* The hospitals of the list that can be reached from junction sp.
HospitalsWithin(sp) ==
    { h \in 1 .. Len(hosp_meta) : Reachable(sp, hosp_meta[h].node) }

\* C39: the spawn junction used for the selection has a finite-cost path to
\* at least one hospital, and a finished run has not taken the exit
\* 'No reachable hospital chosen'.
C39_HospitalAlwaysChosen ==
    \E sp \in {spawn_idx(adj, hosp_meta)} :
        /\ HospitalsWithin(sp) # {}
        /\ \E h \in 1 .. Len(hosp_meta) :
              PSDijkstraWeighted(adj, counts_vals, sp, hosp_meta[h].node).dist[hosp_meta[h].node] # Inf
        /\ route_log # << >> => route_log.exit # "No reachable hospital chosen"

\* The script has ended on a map with two hospitals and a junction from which
\* neither can be reached.
C39_Witness ==
    /\ route_log # << >>
    /\ Len(hosp_meta) = 2
    /\ \E i \in DOMAIN adj : HospitalsWithin(i) = {}

\* ---------------------------------------------------------------------------
\* generate_lights_and_ambulance.py: arrival at the end junction
\* ---------------------------------------------------------------------------

\* C40 (as claimed): the ambulance reaches its end junction only in a frame
\* in which the end junction's light is not RED.
C40_ArrivesOnlyWhenNotRed ==
    [][ (script = "genlights" /\ ~arrived /\ arrived') => lights[end_idx][1] # RED ]_vars
====
